---- MODULE Spec2Model ----
(***************************************************************************)
(* Model of the mechaway workflow engine (axum-backend): the durable       *)
(* workflow store, the hot-reload registry, the cron scheduler service,    *)
(* the management API handlers and the DAG execution engine.               *)
(*                                                                         *)
(* Strings whose characters matter (workflow ids, node ids, job keys) are  *)
(* sequences of one-character strings, so that format!("{}:{}") and        *)
(* str::starts_with are computed as the code computes them.  Option<T> is  *)
(* a sequence of length 0 (None) or 1 (Some).  Result<T> is a record       *)
(* [ok, v].  Timestamps and log output are left out.  The storage backend  *)
(* and the job scheduler runtime are taken to be available (no I/O error). *)
(***************************************************************************)
EXTENDS Integers, Sequences, FiniteSets, TLC

VARIABLES
    storage,       \* rows of the `workflows` table: id -> [name, definition]
    workflows,     \* WorkflowRegistry.workflows: id -> CompiledWorkflow
    job_uuid_map,  \* CronSchedulerService.job_uuid_map: job key -> uuid
    scheduler,     \* jobs held by the JobScheduler runtime: uuid -> job
    last,          \* the management request that returned last, with its status
    fired,         \* job bodies the scheduler runtime has spawned, not yet run
    executions,    \* the DAG executions started so far, in order
    webhooks,      \* the webhook requests received so far, with their responses
    handlers,      \* management requests served one await at a time: their positions
    project_pools,     \* ProjectDatabaseManager.project_pools: the lock and the map it guards
    simpletable_pools, \* ProjectDatabaseManager.simpletable_pools, likewise
    pool_calls,    \* calls of get_project_pool / get_simpletable_pool in flight or returned
    connected,     \* the connection pools SqlitePool::connect_with has opened, in order
    evaluation,    \* a pin expression, the context it is evaluated against, and the result
    simpletables   \* the tables of each project's simple-table database, by project slug

vars == <<storage, workflows, job_uuid_map, scheduler, last, fired, executions, webhooks,
          handlers, project_pools, simpletable_pools, pool_calls, connected, evaluation,
          simpletables>>

(***************************************************************************)
(* Generic values                                                          *)
(***************************************************************************)
None == <<>>
Some(x) == <<x>>
Ok(x) == [ok |-> TRUE, v |-> x]
Err(e) == [ok |-> FALSE, v |-> e]

Range(s) == {s[i] : i \in 1..Len(s)}
EmptyMap == [k \in {} |-> k]
MapPut(f, k, x) == [y \in DOMAIN f \cup {k} |-> IF y = k THEN x ELSE f[y]]
MapRemove(f, k) == [y \in DOMAIN f \ {k} |-> f[y]]

\* str::starts_with on character sequences
starts_with(s, prefix) ==
    /\ Len(prefix) <= Len(s)
    /\ \A i \in 1..Len(prefix) : s[i] = prefix[i]

\* serde_json::Value, as far as the program looks into it
JNull == [t |-> "null"]
JStr(s) == [t |-> "str", v |-> s]
JNum(s) == [t |-> "num", v |-> s]
JArr(s) == [t |-> "arr", v |-> s]

\* params.get(key).and_then(|v| v.as_str())
get_str(params, key) ==
    IF key \in DOMAIN params /\ params[key].t = "str"
    THEN Some(params[key].v)
    ELSE None

(***************************************************************************)
(* workflow/types.rs                                                       *)
(***************************************************************************)
NodeType == {"Webhook", "FunLogic", "SimpleTableWriter", "SimpleTableReader",
             "SimpleTableQuery", "CronTrigger", "HTTPClient", "PGQuery",
             "PGDynTableWriter", "MCPTrigger", "WebSocketTrigger", "MQTTTrigger"}

Node(id, node_type, params) ==
    [id |-> id, node_type |-> node_type, params |-> params,
     inputs |-> None, outputs |-> None, secrets |-> None]

Edge(from, to) == [from |-> from, to |-> to]

Workflow(id, name, nodes, edges) ==
    [id |-> id, name |-> name, nodes |-> nodes, edges |-> edges]

(***************************************************************************)
(* workflow/storage.rs                                                     *)
(***************************************************************************)
\* serde_json::to_string of Option<Vec<String>>
pins_to_json(pins) ==
    IF pins = None THEN JNull
    ELSE JArr([i \in 1..Len(pins[1]) |-> JStr(pins[1][i])])

pins_from_json(j) ==
    IF j.t = "null" THEN None
    ELSE Some([i \in 1..Len(j.v) |-> j.v[i].v])

node_to_json(n) ==
    [id |-> JStr(n.id), node_type |-> JStr(n.node_type), params |-> n.params,
     inputs |-> pins_to_json(n.inputs), outputs |-> pins_to_json(n.outputs),
     secrets |-> pins_to_json(n.secrets)]

node_from_json(j) ==
    [id |-> j.id.v, node_type |-> j.node_type.v, params |-> j.params,
     inputs |-> pins_from_json(j.inputs), outputs |-> pins_from_json(j.outputs),
     secrets |-> pins_from_json(j.secrets)]

\* serde_json::to_string(workflow): the JSON document of the definition column
to_string(workflow) ==
    [id |-> JStr(workflow.id), name |-> JStr(workflow.name),
     nodes |-> JArr([i \in 1..Len(workflow.nodes) |-> node_to_json(workflow.nodes[i])]),
     edges |-> JArr([i \in 1..Len(workflow.edges) |->
                        [from |-> JStr(workflow.edges[i].from),
                         to |-> JStr(workflow.edges[i].to)]])]

\* serde_json::from_str::<Workflow>(definition_json)
from_str(definition_json) ==
    [id |-> definition_json.id.v, name |-> definition_json.name.v,
     nodes |-> [i \in 1..Len(definition_json.nodes.v) |->
                   node_from_json(definition_json.nodes.v[i])],
     edges |-> [i \in 1..Len(definition_json.edges.v) |->
                   [from |-> definition_json.edges.v[i].from.v,
                    to |-> definition_json.edges.v[i].to.v]]]

\* an upsert that updates the name of an existing row and keeps its definition
save_workflow_keeps_definition(rows, workflow) ==
    MapPut(rows, workflow.id,
           [name |-> workflow.name,
            definition |-> IF workflow.id \in DOMAIN rows
                           THEN rows[workflow.id].definition
                           ELSE to_string(workflow)])

\* INSERT ... ON CONFLICT(id) DO UPDATE
save_workflow(rows, workflow) ==
    MapPut(rows, workflow.id,
           [name |-> workflow.name, definition |-> to_string(workflow)])

\* SELECT definition FROM workflows WHERE id = ?
get_workflow_row(rows, id) ==
    IF id \in DOMAIN rows THEN Some(from_str(rows[id].definition)) ELSE None

\* SELECT id, definition FROM workflows
load_all_workflows(rows) == [id \in DOMAIN rows |-> from_str(rows[id].definition)]

\* DELETE FROM workflows WHERE id = ?  -> (rows, rows_affected > 0)
delete_workflow_row(rows, id) ==
    [rows |-> MapRemove(rows, id), existed |-> id \in DOMAIN rows]

(***************************************************************************)
(* workflow/registry.rs                                                    *)
(***************************************************************************)
is_trigger_start(n) == n.node_type \in {"Webhook", "CronTrigger"}

has_webhook_path(n) ==
    n.node_type = "Webhook" /\ get_str(n.params, "path") # None

\* a compile that lets a workflow without a start node through
compile_without_start_check(workflow) ==
    LET hooks == SelectSeq(workflow.nodes, has_webhook_path)
        starts == SelectSeq(workflow.nodes, is_trigger_start)
    IN  Ok([workflow |-> workflow,
            webhook_paths |-> [i \in 1..Len(hooks) |-> get_str(hooks[i].params, "path")[1]],
            start_node_ids |-> [i \in 1..Len(starts) |-> starts[i].id]])

has_path(n) == get_str(n.params, "path") # None

\* a compile that collects the `path` of every node, whatever its type
compile_paths_of_every_node(workflow) ==
    LET with_path == SelectSeq(workflow.nodes, has_path)
        starts == SelectSeq(workflow.nodes, is_trigger_start)
    IN  IF starts = <<>>
        THEN Err("Workflow must have at least one start node")
        ELSE Ok([workflow |-> workflow,
                 webhook_paths |-> [i \in 1..Len(with_path) |->
                                       get_str(with_path[i].params, "path")[1]],
                 start_node_ids |-> [i \in 1..Len(starts) |-> starts[i].id]])

compile_single_workflow(workflow) ==
    LET hooks == SelectSeq(workflow.nodes, has_webhook_path)
        webhook_paths == [i \in 1..Len(hooks) |-> get_str(hooks[i].params, "path")[1]]
        starts == SelectSeq(workflow.nodes, is_trigger_start)
        start_node_ids == [i \in 1..Len(starts) |-> starts[i].id]
    IN  IF start_node_ids = <<>>
        THEN Err("Workflow must have at least one start node")
        ELSE Ok([workflow |-> workflow,
                 webhook_paths |-> webhook_paths,
                 start_node_ids |-> start_node_ids])

\* a reload that inserts but does not overwrite
reload_keeps_existing(rows, registry, workflow_id) ==
    LET workflow == get_workflow_row(rows, workflow_id)
        compiled == compile_single_workflow(workflow[1])
    IN  IF workflow = None THEN Err("Workflow not found")
        ELSE IF ~compiled.ok THEN compiled
        ELSE IF workflow_id \in DOMAIN registry THEN Ok(registry)
        ELSE Ok(MapPut(registry, workflow_id, compiled.v))

\* a reload that adds the compiled webhook paths to those already registered
reload_accumulates_paths(rows, registry, workflow_id) ==
    LET workflow == get_workflow_row(rows, workflow_id)
        compiled == compile_single_workflow(workflow[1])
        registered == IF workflow_id \in DOMAIN registry
                      THEN registry[workflow_id].webhook_paths ELSE <<>>
    IN  IF workflow = None THEN Err("Workflow not found")
        ELSE IF ~compiled.ok THEN compiled
        ELSE Ok(MapPut(registry, workflow_id,
                       [compiled.v EXCEPT !.webhook_paths = registered \o @]))

\* a reload that unregisters the id when there is nothing to compile
reload_failure_unregisters(rows, registry, workflow_id) ==
    LET workflow == get_workflow_row(rows, workflow_id)
        compiled == compile_single_workflow(workflow[1])
    IN  IF workflow = None \/ ~compiled.ok THEN Ok(MapRemove(registry, workflow_id))
        ELSE Ok(MapPut(registry, workflow_id, compiled.v))

\* reload_workflow: the registry map after the call, or the error
reload_workflow(rows, registry, workflow_id) ==
    LET workflow == get_workflow_row(rows, workflow_id)
        compiled == compile_single_workflow(workflow[1])
    IN  IF workflow = None THEN Err("Workflow not found")
        ELSE IF ~compiled.ok THEN compiled
        ELSE Ok(MapPut(registry, workflow_id, compiled.v))

\* compile_workflows: the first definition that does not compile fails the lot
compile_workflows(stored_workflows) ==
    IF \E id \in DOMAIN stored_workflows : ~compile_single_workflow(stored_workflows[id]).ok
    THEN Err("Workflow must have at least one start node")
    ELSE Ok([id \in DOMAIN stored_workflows |->
                compile_single_workflow(stored_workflows[id]).v])

\* init_from_storage: the registry map stored at startup, or the error that
\* create_app returns instead of starting the server
init_from_storage(rows) == compile_workflows(load_all_workflows(rows))

\* get_workflow: Option<CompiledWorkflow>
get_workflow(registry, workflow_id) ==
    IF workflow_id \in DOMAIN registry THEN Some(registry[workflow_id]) ELSE None

\* a removal that drops every id the given id is a prefix of
remove_workflow_by_prefix(registry, workflow_id) ==
    [w \in {w \in DOMAIN registry : ~starts_with(w, workflow_id)} |-> registry[w]]

\* remove_workflow: the map is swapped only when the id was present
remove_workflow(registry, workflow_id) ==
    IF workflow_id \in DOMAIN registry THEN MapRemove(registry, workflow_id)
    ELSE registry

\* get_webhook_routes: path -> workflow id; on a path declared by several
\* workflows the HashMap iteration order decides, so any declaring id may win
get_webhook_routes(registry) ==
    LET paths == UNION {Range(registry[w].webhook_paths) : w \in DOMAIN registry}
        owners(p) == {w \in DOMAIN registry : p \in Range(registry[w].webhook_paths)}
    IN  {r \in [paths -> DOMAIN registry] : \A p \in paths : r[p] \in owners(p)}

(***************************************************************************)
(* workflow/types.rs: ExecutionContext                                     *)
(***************************************************************************)
from_webhook_data(workflow_id, data, project_slug) ==
    [data |-> <<data>>,
     metadata |-> [workflow_id |-> workflow_id],
     project_slug |-> project_slug]

from_cron_trigger(workflow_id, trigger_node_id, project_slug) ==
    [data |-> <<[trigger_type |-> "cron", workflow_id |-> workflow_id,
                 project_slug |-> project_slug]>>,
     metadata |-> [workflow_id |-> workflow_id,
                   trigger_node_id |-> trigger_node_id,
                   trigger_type |-> "cron"],
     project_slug |-> project_slug]

(***************************************************************************)
(* runtime/executor.rs: the node dispatcher, by its contract.  A handler's *)
(* output value is kept abstract: it names the node and the data it read.  *)
(***************************************************************************)
TriggerTypes ==
    {"Webhook", "CronTrigger", "MCPTrigger", "WebSocketTrigger", "MQTTTrigger"}

\* JSON objects met by the pin evaluator: keys are sequences of characters
JObj(fields) == [t |-> "obj", v |-> fields]

\* str::contains
contains(s, pattern) ==
    \E i \in 1..(Len(s) - Len(pattern) + 1) : SubSeq(s, i, i + Len(pattern) - 1) = pattern

\* str::split(sep).collect()
RECURSIVE split(_, _)
split(s, sep) ==
    IF \A i \in 1..Len(s) : s[i] # sep THEN <<s>>
    ELSE LET i == CHOOSE k \in 1..Len(s) : s[k] = sep /\ \A j \in 1..(k - 1) : s[j] # sep
         IN  <<SubSeq(s, 1, i - 1)>> \o split(SubSeq(s, i + 1, Len(s)), sep)

\* a walk that stops at the first part of the path
walk_json_first_part(current, path_parts) ==
    IF path_parts = <<>> THEN current
    ELSE IF current.t = "obj"
    THEN IF Head(path_parts) \in DOMAIN current.v
         THEN current.v[Head(path_parts)] ELSE JNull
    ELSE JNull

\* the loop of extract_json_field over the parts of the path
RECURSIVE walk_json(_, _)
walk_json(current, path_parts) ==
    IF path_parts = <<>> THEN current
    ELSE IF current.t = "obj"
    THEN walk_json(IF Head(path_parts) \in DOMAIN current.v
                   THEN current.v[Head(path_parts)] ELSE JNull,
                   Tail(path_parts))
    ELSE JNull

extract_json_field(data_array, field_path) ==
    LET first_item == IF data_array = <<>> THEN JNull ELSE data_array[1]
    IN  Ok(walk_json(first_item, split(field_path, ".")))

\* characters: one-character strings; "U+00E9" stands for the letter e with
\* an acute accent, which is alphabetic and takes two bytes in UTF-8
AsciiLetters ==
    {"a", "b", "c", "d", "e", "f", "g", "h", "i", "j", "k", "l", "m",
     "n", "o", "p", "q", "r", "s", "t", "u", "v", "w", "x", "y", "z",
     "A", "B", "C", "D", "E", "F", "G", "H", "I", "J", "K", "L", "M",
     "N", "O", "P", "Q", "R", "S", "T", "U", "V", "W", "X", "Y", "Z"}
AsciiDigits == {"0", "1", "2", "3", "4", "5", "6", "7", "8", "9"}
TwoByteLetters == {"U+00E9"}

\* char::is_alphanumeric
is_alphanumeric(c) == c \in AsciiLetters \cup AsciiDigits \cup TwoByteLetters

\* str::len: the length in bytes
len(s) == Len(s) + Cardinality({i \in 1..Len(s) : s[i] \in TwoByteLetters})

safe_patterns ==
    {<<"d", "a", "t", "e", "(">>,
     <<"t", "i", "m", "e", "(", ")">>,
     <<"n", "o", "w", "(", ")">>,
     <<"m", "a", "t", "h", ".">>,
     <<"s", "t", "r", "i", "n", "g", ".">>,
     <<"u", "u", "i", "d", "(", ")">>,
     <<"h", "a", "s", "h", "(">>}

dangerous_patterns ==
    {<<"o", "s", ".">>,
     <<"i", "o", ".">>,
     <<"d", "e", "b", "u", "g", ".">>,
     <<"p", "a", "c", "k", "a", "g", "e", ".">>,
     <<"r", "e", "q", "u", "i", "r", "e">>,
     <<"l", "o", "a", "d">>,
     <<"d", "o", "f", "i", "l", "e">>,
     <<"l", "o", "a", "d", "f", "i", "l", "e">>,
     <<"l", "o", "a", "d", "s", "t", "r", "i", "n", "g">>,
     <<"r", "a", "w", "g", "e", "t">>,
     <<"r", "a", "w", "s", "e", "t">>,
     <<"g", "e", "t", "m", "e", "t", "a", "t", "a", "b", "l", "e">>,
     <<"s", "e", "t", "m", "e", "t", "a", "t", "a", "b", "l", "e">>,
     <<"_", "G">>,
     <<"_", "E", "N", "V">>,
     <<"c", "o", "r", "o", "u", "t", "i", "n", "e">>,
     <<"c", "o", "l", "l", "e", "c", "t", "g", "a", "r", "b", "a", "g", "e">>}

\* " +-*/()[]{}.,\"'_%"
SimpleExpressionChars ==
    {" ", "+", "-", "*", "/", "(", ")", "[", "]", "{", "}", ".", ",", "\"", "'", "_", "%"}

\* the limit on the length of a simple expression
MaxExprLen == 200

is_safe_lua_expression(expr) ==
    IF \E pattern \in dangerous_patterns : contains(expr, pattern) THEN FALSE
    ELSE IF \E pattern \in safe_patterns : contains(expr, pattern) THEN TRUE
    ELSE /\ len(expr) < MaxExprLen
         /\ \A i \in 1..Len(expr) :
                is_alphanumeric(expr[i]) \/ expr[i] \in SimpleExpressionChars

\* serde_json::from_str(pin_expr).unwrap_or_else(|_| Value::String(pin_expr)),
\* for the literals the model evaluates: a quoted string without escapes, a
\* number written in digits, null, and text that is not JSON
parse_literal(pin_expr) ==
    IF /\ Len(pin_expr) >= 2
       /\ pin_expr[1] = "\"" /\ pin_expr[Len(pin_expr)] = "\""
       /\ \A i \in 2..(Len(pin_expr) - 1) : pin_expr[i] \notin {"\"", "\\"}
    THEN JStr(SubSeq(pin_expr, 2, Len(pin_expr) - 1))
    ELSE IF pin_expr # <<>> /\ \A i \in 1..Len(pin_expr) : pin_expr[i] \in AsciiDigits
    THEN JNum(pin_expr)
    ELSE IF pin_expr = <<"n", "u", "l", "l">> THEN JNull
    ELSE JStr(pin_expr)

\* a lookup in a HashMap<String, String> of the context
extract_string(map, key) == Ok(IF key \in DOMAIN map THEN JStr(map[key]) ELSE JNull)

\* extract_file_field: the file record, or null
extract_file_field(files, field_name) ==
    Ok(IF field_name \in DOMAIN files THEN JObj(files[field_name]) ELSE JNull)

\* extract_websocket_field, extract_mqtt_field, extract_mcp_field
extract_sub_field(data, sub, field_name) ==
    LET first_item == IF data = <<>> THEN JNull ELSE data[1]
        sub_data == IF first_item.t = "obj" /\ sub \in DOMAIN first_item.v
                    THEN Some(first_item.v[sub]) ELSE None
    IN  Ok(IF sub_data # None /\ sub_data[1].t = "obj" /\ field_name \in DOMAIN sub_data[1].v
           THEN sub_data[1].v[field_name] ELSE JNull)

Dollar(name) == <<"$">> \o name
after_prefix(pin_expr, prefix) == SubSeq(pin_expr, Len(prefix) + 1, Len(pin_expr))

JsonPin == Dollar(<<"j", "s", "o", "n">>)
JsonPrefix == JsonPin \o <<".">>
FilePrefix == Dollar(<<"f", "i", "l", "e", ".">>)
QueryPrefix == Dollar(<<"q", "u", "e", "r", "y", ".">>)
HeadersPrefix == Dollar(<<"h", "e", "a", "d", "e", "r", "s", ".">>)
WebsocketPrefix == Dollar(<<"w", "e", "b", "s", "o", "c", "k", "e", "t", ".">>)
MqttPrefix == Dollar(<<"m", "q", "t", "t", ".">>)
McpPrefix == Dollar(<<"m", "c", "p", ".">>)

\* the body of the loop of evaluate_input_pins for one pin: the branch taken
\* (via) and the results it can give.  What a script evaluates to is left
\* open: the sandbox returns a value or an error.
evaluate_input_pin(pin_expr, context) ==
    LET one(via, result) == {[via |-> via, result |-> result]}
    IN  IF starts_with(pin_expr, JsonPrefix)
        THEN one("json", extract_json_field(context.data, after_prefix(pin_expr, JsonPrefix)))
        ELSE IF pin_expr = JsonPin
        THEN one("json", Ok(IF context.data = <<>> THEN JNull ELSE context.data[1]))
        ELSE IF starts_with(pin_expr, FilePrefix)
        THEN one("file", extract_file_field(context.files, after_prefix(pin_expr, FilePrefix)))
        ELSE IF starts_with(pin_expr, QueryPrefix)
        THEN one("query", extract_string(context.query, after_prefix(pin_expr, QueryPrefix)))
        ELSE IF starts_with(pin_expr, HeadersPrefix)
        THEN one("headers",
                 extract_string(context.headers, after_prefix(pin_expr, HeadersPrefix)))
        ELSE IF starts_with(pin_expr, WebsocketPrefix)
        THEN one("websocket",
                 extract_sub_field(context.data, <<"w", "e", "b", "s", "o", "c", "k", "e", "t">>,
                                   after_prefix(pin_expr, WebsocketPrefix)))
        ELSE IF starts_with(pin_expr, MqttPrefix)
        THEN one("mqtt", extract_sub_field(context.data, <<"m", "q", "t", "t">>,
                                           after_prefix(pin_expr, MqttPrefix)))
        ELSE IF starts_with(pin_expr, McpPrefix)
        THEN one("mcp", extract_sub_field(context.data, <<"m", "c", "p">>,
                                          after_prefix(pin_expr, McpPrefix)))
        ELSE IF is_safe_lua_expression(pin_expr)
        THEN {[via |-> "script", result |-> r] :
                 r \in {Ok([t |-> "lua", v |-> pin_expr]), Err("Safe Lua execution failed")}}
        ELSE one("literal", Ok(parse_literal(pin_expr)))

\* "$secret."
SecretPrefix == <<"$", "s", "e", "c", "r", "e", "t", ".">>

\* evaluate_secret_pins: the placeholder value of every pin, or the error of
\* the first pin that does not start with "$secret."
evaluate_secret_pins(pins) ==
    IF \E i \in 1..Len(pins) : ~starts_with(pins[i], SecretPrefix)
    THEN Err("Invalid secret pin expression")
    ELSE Ok([i \in 1..Len(pins) |->
                <<"PLACEHOLDER_SECRET_">> \o SubSeq(pins[i], Len(SecretPrefix) + 1,
                                                    Len(pins[i]))])

\* STEP 1 and STEP 2 of execute_pgquery_node and of
\* execute_pgdyn_table_writer_node: the connection string, or the error
resolve_connection(node) ==
    IF node.secrets = None THEN Err("REQUIRES secrets field")
    ELSE IF node.secrets[1] = <<>> THEN Err("requires at least one secret")
    ELSE LET resolved_secrets == evaluate_secret_pins(node.secrets[1])
         IN  IF ~resolved_secrets.ok THEN resolved_secrets
             ELSE Ok(resolved_secrets.v[1])

\* mlua::Value, the values a script can return
LuaNil == [t |-> "nil"]
LuaBoolean(b) == [t |-> "boolean", b |-> b]
LuaInteger(i) == [t |-> "integer", i |-> i]
LuaNumber(f) == [t |-> "number", v |-> f]
LuaString(s) == [t |-> "string", v |-> s]
LuaTable(pairs) == [t |-> "table", pairs |-> pairs]
LuaFunction == [t |-> "function"]

JBool(b) == [t |-> "bool", b |-> b]

\* i.to_string() and serde_json::Number::from(i): the decimal digits of i
RECURSIVE integer_to_string(_)
integer_to_string(i) ==
    LET digit(d) == <<"0", "1", "2", "3", "4", "5", "6", "7", "8", "9">>[d + 1]
    IN  IF i < 0 THEN <<"-">> \o integer_to_string(0 - i)
        ELSE IF i < 10 THEN <<digit(i)>>
        ELSE integer_to_string(i \div 10) \o <<digit(i % 10)>>

\* serde_json::Number::from_f64(f): None for NaN and the infinities
from_f64(f) ==
    IF f \in {<<"NaN">>, <<"inf">>, <<"-", "inf">>} THEN None ELSE Some(JNum(f))

\* s.to_str(): the bytes of a Lua string are not always UTF-8
to_str(s) ==
    IF "0xFF" \in Range(s) THEN Err("Invalid UTF-8 in Lua string") ELSE Ok(s)

\* table.get(i)
table_get(pairs, i) ==
    IF LuaInteger(i) \in DOMAIN pairs THEN pairs[LuaInteger(i)] ELSE LuaNil

\* lua_to_json(lua_value).  The keys of one table are taken to convert to
\* different strings, so the order of pairs() does not show in the object.
RECURSIVE lua_to_json(_)
lua_to_json(lua_value) ==
    IF lua_value.t = "nil" THEN Ok(JNull)
    ELSE IF lua_value.t = "boolean" THEN Ok(JBool(lua_value.b))
    ELSE IF lua_value.t = "integer" THEN Ok(JNum(integer_to_string(lua_value.i)))
    ELSE IF lua_value.t = "number"
    THEN IF from_f64(lua_value.v) # None THEN Ok(from_f64(lua_value.v)[1]) ELSE Ok(JNull)
    ELSE IF lua_value.t = "string"
    THEN LET s_str == to_str(lua_value.v)
         IN  IF s_str.ok THEN Ok(JStr(s_str.v)) ELSE s_str
    ELSE IF lua_value.t = "table"
    THEN LET pairs == lua_value.pairs
             count == Cardinality(DOMAIN pairs)
             is_array == \A key \in DOMAIN pairs : key.t = "integer" /\ key.i > 0
             max_index == IF is_array /\ count > 0
                          THEN CHOOSE m \in {key.i : key \in DOMAIN pairs} :
                                   \A key \in DOMAIN pairs : key.i <= m
                          ELSE 0
         IN  IF is_array /\ count > 0 /\ count = max_index
             THEN LET arr == [i \in 1..max_index |-> lua_to_json(table_get(pairs, i))]
                  IN  IF \E i \in 1..max_index : ~arr[i].ok
                      THEN arr[CHOOSE i \in 1..max_index :
                                   ~arr[i].ok /\ \A j \in 1..(i - 1) : arr[j].ok]
                      ELSE Ok(JArr([i \in 1..max_index |-> arr[i].v]))
             ELSE LET supported == {key \in DOMAIN pairs :
                                       key.t \in {"string", "integer", "number"}}
                      key_str(key) == IF key.t = "string" THEN to_str(key.v)
                                      ELSE IF key.t = "integer"
                                      THEN Ok(integer_to_string(key.i))
                                      ELSE Ok(key.v)
                      failed == {key \in supported :
                                    ~key_str(key).ok \/ ~lua_to_json(pairs[key]).ok}
                  IN  IF failed # {}
                      THEN Err("Invalid UTF-8 in Lua string")
                      ELSE Ok(JObj([s \in {key_str(key).v : key \in supported} |->
                                       lua_to_json(pairs[CHOOSE key \in supported :
                                                             key_str(key).v = s]).v]))
    ELSE Ok(JNull)

\* a node that hands on whatever the script returned, wrapped or not
execute_fun_logic_node_always_wraps(node, context, lua_result) ==
    IF get_str(node.params, "script") = None
    THEN Err("FunLogicNode missing 'script' parameter")
    ELSE IF ~lua_result.ok THEN Err("Lua script execution failed")
    ELSE LET json_result == lua_to_json(lua_result.v)
         IN  IF ~json_result.ok THEN json_result
             ELSE Ok([data |-> <<json_result.v>>, metadata |-> context.metadata,
                      should_continue |-> TRUE])

\* execute_fun_logic_node(node, context); lua_result is what
\* lua.load(script).eval() returned for the script of the node
execute_fun_logic_node(node, context, lua_result) ==
    IF get_str(node.params, "script") = None
    THEN Err("FunLogicNode missing 'script' parameter")
    ELSE IF ~lua_result.ok THEN Err("Lua script execution failed")
    ELSE LET json_result == lua_to_json(lua_result.v)
         IN  IF ~json_result.ok THEN json_result
             ELSE LET result_array == IF json_result.v.t = "arr"
                                      THEN json_result.v.v
                                      ELSE <<json_result.v>>
                  IN  Ok([data |-> result_array, metadata |-> context.metadata,
                          should_continue |-> TRUE])

\* a dispatcher whose PostgreSQL nodes run without a connection secret
execute_node_without_secret(node, context) ==
    LET metadata == MapPut(MapPut(context.metadata, "current_node_id", node.id),
                           "current_node_type", node.node_type)
        data == <<[node |-> node.id, input |-> context.data]>>
        result(c) == Ok([data |-> data, metadata |-> metadata, should_continue |-> c])
    IN  IF node.node_type \in TriggerTypes
        THEN {[ok |-> FALSE]}
        ELSE IF node.node_type = "HTTPClient"
        THEN {result(TRUE), result(FALSE), [ok |-> FALSE]}
        ELSE {result(TRUE), [ok |-> FALSE]}

\* the results execute_node(node, context) can return
execute_node(node, context) ==
    LET metadata == MapPut(MapPut(context.metadata, "current_node_id", node.id),
                           "current_node_type", node.node_type)
        data == <<[node |-> node.id, input |-> context.data]>>
        result(c) == Ok([data |-> data, metadata |-> metadata, should_continue |-> c])
    IN  IF node.node_type \in TriggerTypes
        THEN {[ok |-> FALSE]}
        ELSE IF node.node_type = "HTTPClient"
        THEN {result(TRUE), result(FALSE), [ok |-> FALSE]}
        ELSE IF node.node_type \in {"PGQuery", "PGDynTableWriter"}
                /\ ~resolve_connection(node).ok
        THEN {[ok |-> FALSE]}
        ELSE {result(TRUE), [ok |-> FALSE]}

(***************************************************************************)
(* runtime/engine.rs                                                       *)
(***************************************************************************)
\* petgraph vertices are the positions of the nodes in the node list
Vertices(graph) == 1..Len(graph.nodes)

Successors(graph, u) ==
    {graph.edges[i][2] : i \in {j \in 1..Len(graph.edges) : graph.edges[j][1] = u}}

\* petgraph::algo::toposort: Ok(some topological order), Err on a cycle.
\* The order among unrelated vertices is the library's; every order is allowed.
toposort(graph) ==
    LET n == Len(graph.nodes)
    IN  {order \in [1..n -> 1..n] :
            /\ \A i, j \in 1..n : i # j => order[i] # order[j]
            /\ \A e \in Range(graph.edges) :
                   \E i, j \in 1..n : i < j /\ order[i] = e[1] /\ order[j] = e[2]}

build_workflow_graph(workflow) ==
    LET ids == {workflow.nodes[i].id : i \in 1..Len(workflow.nodes)}
        \* HashMap::insert: a later node with the same id replaces the entry
        node_id_to_index ==
            [id \in ids |->
                CHOOSE i \in 1..Len(workflow.nodes) :
                    /\ workflow.nodes[i].id = id
                    /\ \A j \in 1..Len(workflow.nodes) :
                           workflow.nodes[j].id = id => j <= i]
        index_to_node_id == [i \in 1..Len(workflow.nodes) |-> workflow.nodes[i].id]
        known(e) == e.from \in ids /\ e.to \in ids
        graph == [nodes |-> workflow.nodes,
                  edges |-> [i \in 1..Len(workflow.edges) |->
                                <<node_id_to_index[workflow.edges[i].from],
                                  node_id_to_index[workflow.edges[i].to]>>]]
    IN  IF \E i \in 1..Len(workflow.edges) : ~known(workflow.edges[i])
        THEN Err("Edge references unknown node")
        ELSE IF toposort(graph) = {}
        THEN Err("Workflow contains cycles - must be a DAG")
        ELSE Ok([graph |-> graph, node_id_to_index |-> node_id_to_index,
                 index_to_node_id |-> index_to_node_id])

\* find_reachable_nodes: the forward closure of the start vertex
RECURSIVE reach_from(_, _, _)
reach_from(graph, reachable, queue) ==
    IF queue = {} THEN reachable
    ELSE LET targets == UNION {Successors(graph, u) : u \in queue} \ reachable
         IN  reach_from(graph, reachable \cup targets, targets)

\* a reachability that takes every vertex of the graph
reach_every_vertex(graph, start_index) == Vertices(graph)

find_reachable_nodes(graph, start_index) ==
    reach_from(graph, {start_index}, {start_index})

position(order, x) == CHOOSE i \in 1..Len(order) : order[i] = x

NoError == [msg |-> "", node |-> <<>>]
EngineError(msg) == [msg |-> msg, node |-> <<>>]

\* an execution: the snapshot it runs, its list of nodes, and how far it got
Execution(workflow, start_node_id, context, nodes_to_execute, status, error) ==
    [workflow |-> workflow.workflow, start_node_id |-> start_node_id,
     context |-> context, nodes_to_execute |-> nodes_to_execute,
     step |-> 1,
     current_result |-> [data |-> context.data, metadata |-> context.metadata,
                         should_continue |-> TRUE],
     dispatched |-> <<>>, status |-> status, error |-> error]

\* a loop that exits only when the list is exhausted
settle_ignores_continue(e) ==
    IF e.status = "running" /\ e.step > Len(e.nodes_to_execute)
    THEN [e EXCEPT !.status = "ok"]
    ELSE e

\* the loop exits when the list is exhausted or should_continue is false
settle(e) ==
    IF /\ e.status = "running"
       /\ \/ e.step > Len(e.nodes_to_execute)
          \/ ~e.current_result.should_continue
    THEN [e EXCEPT !.status = "ok"]
    ELSE e

\* execute_workflow up to its first dispatch, for the order toposort returned
prepare_execution(workflow, start_node_id, context, g, topo_order) ==
    LET start_index == g.node_id_to_index[start_node_id]
        start_pos == position(topo_order, start_index)
        is_entry_type ==
            g.graph.nodes[start_index].node_type \in {"Webhook", "CronTrigger"}
        reachable_nodes == find_reachable_nodes(g.graph, start_index)
        keep(idx) ==
            /\ idx \in reachable_nodes
            /\ g.graph.nodes[idx].node_type \notin {"Webhook", "CronTrigger"}
        nodes_to_execute == SelectSeq(topo_order, keep)
    IN  IF is_entry_type /\ start_pos + 1 > Len(topo_order)
        THEN Execution(workflow, start_node_id, context, <<>>, "err",
                       EngineError("Start node has no connected processing nodes"))
        ELSE settle(Execution(workflow, start_node_id, context,
                              [i \in 1..Len(nodes_to_execute) |->
                                  g.graph.nodes[nodes_to_execute[i]]],
                              "running", NoError))

\* the executions execute_workflow(workflow, start_node_id, context) can begin
execute_workflow(workflow, start_node_id, context) ==
    LET g == build_workflow_graph(workflow.workflow)
    IN  IF ~g.ok
        THEN {Execution(workflow, start_node_id, context, <<>>, "err", EngineError(g.v))}
        ELSE IF start_node_id \notin DOMAIN g.v.node_id_to_index
        THEN {Execution(workflow, start_node_id, context, <<>>, "err",
                        EngineError("Start node not found"))}
        ELSE {prepare_execution(workflow, start_node_id, context, g.v, order) :
                 order \in toposort(g.v.graph)}

\* an iteration that leaves a failed node to be dispatched again
run_node_retries(e, node, context, result) ==
    LET sent == Append(e.dispatched,
                       [node |-> node.id, data |-> context.data,
                        metadata |-> context.metadata])
    IN  IF ~result.ok
        THEN [e EXCEPT !.dispatched = sent]
        ELSE settle([e EXCEPT !.dispatched = sent, !.current_result = result.v,
                              !.step = e.step + 1])

\* one iteration of the loop over nodes_to_execute, for one dispatcher result
run_node(e, node, context, result) ==
    LET sent == Append(e.dispatched,
                       [node |-> node.id, data |-> context.data,
                        metadata |-> context.metadata])
    IN  IF ~result.ok
        THEN [e EXCEPT !.dispatched = sent, !.status = "err",
                       !.error = [msg |-> "Node execution failed", node |-> node.id]]
        ELSE settle([e EXCEPT !.dispatched = sent, !.current_result = result.v,
                              !.step = e.step + 1])

\* an iteration that takes the definition from the registry again
next_iteration_rereads_registry(e) ==
    LET current == get_workflow(workflows, e.workflow.id)
    IN  IF current = None
        THEN {[e EXCEPT !.status = "err", !.error = EngineError("Workflow not found")]}
        ELSE {settle([e EXCEPT !.workflow = current[1].workflow, !.step = e.step + 1])}

\* an iteration that hands every node the context the trigger built
next_iteration_keeps_trigger_context(e) ==
    LET node == e.nodes_to_execute[e.step]
    IN  IF node.node_type = "Webhook"
        THEN {settle([e EXCEPT !.step = e.step + 1])}
        ELSE {run_node(e, node, e.context, result) :
                 result \in execute_node(node, e.context)}

\* the states a running execution can move to by its next iteration
next_iteration(e) ==
    LET node == e.nodes_to_execute[e.step]
        context == [e.context EXCEPT !.data = e.current_result.data,
                                     !.metadata = e.current_result.metadata]
    IN  IF node.node_type = "Webhook"
        THEN {settle([e EXCEPT !.step = e.step + 1])}
        ELSE {run_node(e, node, context, result) : result \in execute_node(node, context)}

(***************************************************************************)
(* runtime/scheduler.rs                                                    *)
(***************************************************************************)
\* format!("{}:{}", workflow_id, cron_node.id)
job_key(workflow_id, node_id) == workflow_id \o <<":">> \o node_id

\* cron expressions Job::new_async accepts, among those the model submits
ParsableSchedules == {"*/1 * * * * *", "0 0 * * * *"}

\* Uuid of a newly added job: any value not in use; the least one is taken
new_job_uuid(s) ==
    LET used == DOMAIN s.scheduler \cup {s.job_uuid_map[k] : k \in DOMAIN s.job_uuid_map}
    IN  CHOOSE u \in 1..(Cardinality(used) + 1) :
            u \notin used /\ \A v \in 1..(u - 1) : v \in used

\* add_or_update_cron_job on s = [job_uuid_map, scheduler]
add_or_update_cron_job(s, workflow_id, cron_node) ==
    LET schedule == get_str(cron_node.params, "schedule")
        job_id == job_key(workflow_id, cron_node.id)
        \* STEP 1: remove the existing job
        s1 == IF job_id \in DOMAIN s.job_uuid_map
              THEN [job_uuid_map |-> MapRemove(s.job_uuid_map, job_id),
                    scheduler |-> MapRemove(s.scheduler, s.job_uuid_map[job_id])]
              ELSE s
        \* STEP 3: the job closure captures the ids, not the definition
        job == [schedule |-> schedule[1], workflow_id |-> workflow_id,
                cron_node_id |-> cron_node.id]
        \* STEP 4
        new_uuid == new_job_uuid(s1)
    IN  IF schedule = None THEN [ok |-> FALSE, s |-> s]
        ELSE IF schedule[1] \notin ParsableSchedules THEN [ok |-> FALSE, s |-> s1]
        ELSE [ok |-> TRUE,
              s |-> [job_uuid_map |-> MapPut(s1.job_uuid_map, job_id, new_uuid),
                     scheduler |-> MapPut(s1.scheduler, new_uuid, job)]]

\* a job body that enters the workflow at its first start node
cron_job_body_first_start(registry, workflow_id, cron_node_id) ==
    LET workflow == get_workflow(registry, workflow_id)
        context == from_cron_trigger(workflow_id, cron_node_id, "default")
    IN  IF workflow # None
        THEN {Some(e) : e \in execute_workflow(workflow[1], workflow[1].start_node_ids[1],
                                               context)}
        ELSE {None}

\* the body of the job closure, run when the job has fired: the executions it
\* can start (Some), or None when it skips because the workflow is gone
cron_job_body(registry, workflow_id, cron_node_id) ==
    LET workflow == get_workflow(registry, workflow_id)
        context == from_cron_trigger(workflow_id, cron_node_id, "default")
    IN  IF workflow # None
        THEN {Some(e) : e \in execute_workflow(workflow[1], cron_node_id, context)}
        ELSE {None}

\* remove_workflow_cron_triggers on s = [job_uuid_map, scheduler]
remove_workflow_cron_triggers(s, workflow_id) ==
    LET keys_to_remove == {key \in DOMAIN s.job_uuid_map : starts_with(key, workflow_id)}
        uuids == {s.job_uuid_map[key] : key \in keys_to_remove}
    IN  [job_uuid_map |-> [key \in DOMAIN s.job_uuid_map \ keys_to_remove |->
                              s.job_uuid_map[key]],
         scheduler |-> [u \in DOMAIN s.scheduler \ uuids |-> s.scheduler[u]]]

\* the loop `for cron_node in cron_nodes { add_or_update_cron_job(..)? }`
RECURSIVE add_cron_jobs(_, _, _)
add_cron_jobs(s, workflow_id, cron_nodes) ==
    IF cron_nodes = <<>> THEN [ok |-> TRUE, s |-> s]
    ELSE LET r == add_or_update_cron_job(s, workflow_id, Head(cron_nodes))
         IN  IF ~r.ok THEN r
             ELSE add_cron_jobs(r.s, workflow_id, Tail(cron_nodes))

is_cron(n) == n.node_type = "CronTrigger"

add_or_update_workflow_cron_triggers(s, workflow) ==
    LET cron_nodes == SelectSeq(workflow.nodes, is_cron)
    IN  IF cron_nodes = <<>>
        THEN [ok |-> TRUE, s |-> remove_workflow_cron_triggers(s, workflow.id)]
        ELSE add_cron_jobs(s, workflow.id, cron_nodes)

\* a call of add_or_update_workflow_cron_triggers or
\* remove_workflow_cron_triggers in flight: the Cron nodes still to visit,
\* the statement it is at, and the uuid scheduler.add() returned to it
SchedulerCall(op, workflow_id, cron_nodes) ==
    [op |-> op, workflow_id |-> workflow_id, cron_nodes |-> cron_nodes,
     pc |-> "entered", new_job_uuid |-> 0, ok |-> TRUE]

\* STEP 5: job_uuid_map.insert(job_id, new_job_uuid)
track_job_uuid(s, c) ==
    [s EXCEPT !.job_uuid_map =
                  MapPut(@, job_key(c.workflow_id, Head(c.cron_nodes).id), c.new_job_uuid)]

\* one step of a scheduler call: the statements between two lock
\* acquisitions.  Each block that takes the write guard of job_uuid_map, or
\* the write guard of the scheduler, is one step.
scheduler_call_step(s, c) ==
    LET returns(s_after, ok) == [s |-> s_after, c |-> [c EXCEPT !.pc = "returned", !.ok = ok]]
        cron_node == Head(c.cron_nodes)
        schedule == get_str(cron_node.params, "schedule")
        job_id == job_key(c.workflow_id, cron_node.id)
    IN  IF c.op = "remove" \/ c.cron_nodes = <<>>
        THEN returns(remove_workflow_cron_triggers(s, c.workflow_id), TRUE)
        ELSE IF c.pc \in {"entered", "next_node"}
        THEN \* the schedule parameter, then STEP 1 under the map's write guard
             IF schedule = None THEN returns(s, FALSE)
             ELSE [s |-> IF job_id \in DOMAIN s.job_uuid_map
                         THEN [job_uuid_map |-> MapRemove(s.job_uuid_map, job_id),
                               scheduler |-> MapRemove(s.scheduler, s.job_uuid_map[job_id])]
                         ELSE s,
                   c |-> [c EXCEPT !.pc = "add"]]
        ELSE IF c.pc = "add"
        THEN \* STEP 3 and STEP 4 under the scheduler's write guard
             IF schedule[1] \notin ParsableSchedules THEN returns(s, FALSE)
             ELSE LET new_uuid == new_job_uuid(s)
                  IN  [s |-> [s EXCEPT !.scheduler =
                                  MapPut(@, new_uuid,
                                         [schedule |-> schedule[1],
                                          workflow_id |-> c.workflow_id,
                                          cron_node_id |-> cron_node.id])],
                       c |-> [c EXCEPT !.pc = "track", !.new_job_uuid = new_uuid]]
        ELSE \* c.pc = "track": STEP 5, then the next Cron node or Ok
             IF Len(c.cron_nodes) = 1 THEN returns(track_job_uuid(s, c), TRUE)
             ELSE [s |-> track_job_uuid(s, c),
                   c |-> [c EXCEPT !.pc = "next_node", !.cron_nodes = Tail(@),
                                   !.new_job_uuid = 0]]

\* registry.get_all_workflows(): the workflows of the snapshot, in the
\* iteration order of the HashMap, which is any order
get_all_workflows(registry) ==
    {[i \in 1..Cardinality(DOMAIN registry) |-> registry[order[i]].workflow] :
        order \in {o \in [1..Cardinality(DOMAIN registry) -> DOMAIN registry] :
                      \A i, j \in DOMAIN o : o[i] = o[j] => i = j}}

\* the task spawned by create_app that runs start()
StartCall == [op |-> "start", pc |-> "spawned", workflows |-> <<>>]

\* one step of start(): the read of the registry by
\* register_all_cron_triggers, then one workflow of its loop per step, then
\* the start of the scheduler runtime.  The results the step can have.
start_step(registry, s, c) ==
    IF c.pc = "spawned"
    THEN {[s |-> s, c |-> [c EXCEPT !.pc = "register", !.workflows = read]] :
             read \in get_all_workflows(registry)}
    ELSE IF c.workflows = <<>>
    THEN {[s |-> s, c |-> [c EXCEPT !.pc = "started"]]}
    ELSE LET workflow == Head(c.workflows)
             trigger_count == Len(SelectSeq(workflow.nodes, is_cron))
             r == add_or_update_workflow_cron_triggers(s, workflow)
         IN  IF trigger_count = 0
             THEN {[s |-> s, c |-> [c EXCEPT !.workflows = Tail(@)]]}
             ELSE IF ~r.ok
             THEN {[s |-> r.s, c |-> [c EXCEPT !.pc = "failed"]]}
             ELSE {[s |-> r.s, c |-> [c EXCEPT !.workflows = Tail(@)]]}

(***************************************************************************)
(* project/database.rs: tokio::sync::RwLock<HashMap<String, SqlitePool>>   *)
(* is the map with the tasks that hold the lock: the indices of the calls  *)
(* holding a read guard, and of the call holding the write guard.          *)
(***************************************************************************)
Unlocked(map) == [map |-> map, readers |-> {}, writer |-> None]

\* a call of get_project_pool ("project") or get_simpletable_pool
\* ("simpletable") as it is received: about to ask for the read guard
PoolCall(kind, project_slug) ==
    [kind |-> kind, project_slug |-> project_slug, pc |-> "read", pool |-> None,
     via |-> ""]

\* the call returns Ok(pool.clone()); `via` keeps the return statement taken
ReturnsPool(c, pool, via) == [c EXCEPT !.pc = "returned", !.pool = Some(pool), !.via = via]

\* whether call number i, at its position, can take its next step: the two
\* lock acquisitions wait, everything else runs
pool_step_enabled(pools, c, i) ==
    CASE c.pc = "read" -> pools.writer = None
      [] c.pc = "write" -> pools.writer = None /\ pools.readers = {}
      [] c.pc = "returned" -> FALSE
      [] OTHER -> TRUE

\* a slow path that does not look the slug up again under the write guard
get_pool_step_no_recheck(pools, c, i, opened) ==
    LET to(pc) == [c EXCEPT !.pc = pc]
        present == c.project_slug \in DOMAIN pools.map
    IN  CASE c.pc = "read" ->
               [pools |-> [pools EXCEPT !.readers = @ \cup {i}], c |-> to("fast_path"),
                opened |-> opened]
          [] c.pc = "fast_path" ->
               [pools |-> [pools EXCEPT !.readers = @ \ {i}],
                c |-> IF present THEN ReturnsPool(c, pools.map[c.project_slug], "fast_path")
                      ELSE to("write"),
                opened |-> opened]
          [] c.pc = "write" ->
               [pools |-> [pools EXCEPT !.writer = Some(i)], c |-> to("double_check"),
                opened |-> opened]
          [] c.pc = "double_check" ->
               [pools |-> pools, c |-> to("connect"), opened |-> opened]
          [] c.pc = "connect" ->
               [pools |-> pools,
                c |-> [c EXCEPT !.pool = Some(Len(opened) + 1),
                                !.pc = IF c.kind = "project" THEN "init_schema"
                                       ELSE "insert"],
                opened |-> Append(opened, [kind |-> c.kind,
                                           project_slug |-> c.project_slug])]
          [] c.pc = "init_schema" ->
               [pools |-> pools, c |-> to("insert"), opened |-> opened]
          [] c.pc = "insert" ->
               [pools |-> [pools EXCEPT !.map = MapPut(@, c.project_slug, c.pool[1]),
                                        !.writer = None],
                c |-> ReturnsPool(c, c.pool[1], "insert"),
                opened |-> opened]

\* one step of call number i of get_project_pool / get_simpletable_pool on
\* its lock-guarded map `pools`, up to the next await or return; `opened`
\* are the pools connect_with has opened so far, and a pool is known by its
\* position there
get_pool_step(pools, c, i, opened) ==
    LET to(pc) == [c EXCEPT !.pc = pc]
        present == c.project_slug \in DOMAIN pools.map
    IN  CASE c.pc = "read" ->
               \* self.project_pools.read().await
               [pools |-> [pools EXCEPT !.readers = @ \cup {i}], c |-> to("fast_path"),
                opened |-> opened]
          [] c.pc = "fast_path" ->
               \* pools.get(project_slug); the read guard is dropped with the block
               [pools |-> [pools EXCEPT !.readers = @ \ {i}],
                c |-> IF present THEN ReturnsPool(c, pools.map[c.project_slug], "fast_path")
                      ELSE to("write"),
                opened |-> opened]
          [] c.pc = "write" ->
               \* self.project_pools.write().await
               [pools |-> [pools EXCEPT !.writer = Some(i)], c |-> to("double_check"),
                opened |-> opened]
          [] c.pc = "double_check" ->
               IF present
               THEN [pools |-> [pools EXCEPT !.writer = None],
                     c |-> ReturnsPool(c, pools.map[c.project_slug], "double_check"),
                     opened |-> opened]
               ELSE [pools |-> pools, c |-> to("connect"), opened |-> opened]
          [] c.pc = "connect" ->
               \* SqlitePool::connect_with(options).await
               [pools |-> pools,
                c |-> [c EXCEPT !.pool = Some(Len(opened) + 1),
                                !.pc = IF c.kind = "project" THEN "init_schema"
                                       ELSE "insert"],
                opened |-> Append(opened, [kind |-> c.kind,
                                           project_slug |-> c.project_slug])]
          [] c.pc = "init_schema" ->
               \* self.init_project_schema(&pool).await
               [pools |-> pools, c |-> to("insert"), opened |-> opened]
          [] c.pc = "insert" ->
               \* pools.insert(..); the write guard is dropped on return
               [pools |-> [pools EXCEPT !.map = MapPut(@, c.project_slug, c.pool[1]),
                                        !.writer = None],
                c |-> ReturnsPool(c, c.pool[1], "insert"),
                opened |-> opened]

(***************************************************************************)
(* api/workflows.rs: the management handlers.  Each takes the shared       *)
(* application state st = [storage, workflows, job_uuid_map, scheduler]    *)
(* and yields the state it leaves, the HTTP status it returns and whether  *)
(* its registry reload returned Ok.                                        *)
(***************************************************************************)
BAD_REQUEST == 400
NOT_FOUND == 404
CONFLICT == 409
INTERNAL_SERVER_ERROR == 500
HTTP_OK == 200

Reply(st, status, reloaded) ==
    [storage |-> st.storage, workflows |-> st.workflows,
     job_uuid_map |-> st.job_uuid_map, scheduler |-> st.scheduler,
     status |-> status, reloaded |-> reloaded]

\* save, reload and reconcile: the part create_workflow and update_workflow share
save_reload_schedule(st, workflow) ==
    LET saved == [st EXCEPT !.storage = save_workflow(st.storage, workflow)]
        reloaded == reload_workflow(saved.storage, saved.workflows, workflow.id)
        added == add_or_update_workflow_cron_triggers(
                     [job_uuid_map |-> st.job_uuid_map, scheduler |-> st.scheduler],
                     workflow)
    IN  IF ~reloaded.ok THEN Reply(saved, INTERNAL_SERVER_ERROR, FALSE)
        ELSE Reply([saved EXCEPT !.workflows = reloaded.v,
                                 !.job_uuid_map = added.s.job_uuid_map,
                                 !.scheduler = added.s.scheduler],
                   IF added.ok THEN HTTP_OK ELSE INTERNAL_SERVER_ERROR, TRUE)

create_workflow(st, workflow) ==
    IF workflow.id = <<>> \/ workflow.name = "" THEN Reply(st, BAD_REQUEST, FALSE)
    ELSE IF get_workflow_row(st.storage, workflow.id) # None
    THEN Reply(st, CONFLICT, FALSE)
    ELSE save_reload_schedule(st, workflow)

update_workflow(st, id, payload) ==
    LET workflow == [payload EXCEPT !.id = id]
    IN  IF workflow.name = "" THEN Reply(st, BAD_REQUEST, FALSE)
        ELSE IF get_workflow_row(st.storage, id) = None
        THEN Reply(st, NOT_FOUND, FALSE)
        ELSE save_reload_schedule(st, workflow)

delete_workflow(st, id) ==
    LET unscheduled == remove_workflow_cron_triggers(
                           [job_uuid_map |-> st.job_uuid_map, scheduler |-> st.scheduler],
                           id)
        deleted == delete_workflow_row(st.storage, id)
    IN  Reply([storage |-> deleted.rows,
               workflows |-> remove_workflow(st.workflows, id),
               job_uuid_map |-> unscheduled.job_uuid_map,
               scheduler |-> unscheduled.scheduler],
              IF deleted.existed THEN HTTP_OK ELSE NOT_FOUND, FALSE)

app_state ==
    [storage |-> storage, workflows |-> workflows,
     job_uuid_map |-> job_uuid_map, scheduler |-> scheduler]

\* the handler's effect on the shared state, and its response
Returns(op, id, r) ==
    /\ storage' = r.storage
    /\ workflows' = r.workflows
    /\ job_uuid_map' = r.job_uuid_map
    /\ scheduler' = r.scheduler
    /\ last' = [op |-> op, id |-> id, status |-> r.status, reloaded |-> r.reloaded]

(***************************************************************************)
(* api/webhooks.rs: the webhook handler.  Request paths and the `path`     *)
(* parameters they are compared with are sequences of characters.          *)
(***************************************************************************)
UNPROCESSABLE_ENTITY == 422

\* serde_json::from_str on a request body, for the bodies the model sends
parse_body(body) ==
    CASE body = "\"payload\"" -> Ok(JStr("payload"))
      [] body = "null" -> Ok(JNull)
      [] OTHER -> Err("invalid json")

\* the first Webhook node, in node order, whose `path` is webhook_path
find_webhook_start_node(compiled_workflow, webhook_path) ==
    LET nodes == compiled_workflow.workflow.nodes
        found == {i \in 1..Len(nodes) :
                     /\ nodes[i].node_type = "Webhook"
                     /\ get_str(nodes[i].params, "path") = Some(webhook_path)}
    IN  IF found = {} THEN Err(NOT_FOUND)
        ELSE Ok(nodes[CHOOSE i \in found : \A j \in found : i <= j].id)

\* a handler that looks the workflow up before it parses the body
execute_webhook_lookup_first(registry, workflow_id, webhook_path, body) ==
    LET payload == parse_body(body)
        compiled_workflow == get_workflow(registry, workflow_id)
        webhook_path_normalized ==
            IF starts_with(webhook_path, <<"/">>) THEN webhook_path
            ELSE <<"/">> \o webhook_path
        start_node_id == find_webhook_start_node(compiled_workflow[1], webhook_path_normalized)
        execution_context == from_webhook_data(workflow_id, payload.v, "default")
    IN  IF compiled_workflow = None THEN [status |-> NOT_FOUND, started |-> {}]
        ELSE IF ~start_node_id.ok THEN [status |-> start_node_id.v, started |-> {}]
        ELSE IF ~payload.ok THEN [status |-> BAD_REQUEST, started |-> {}]
        ELSE [status |-> 0,
              started |-> execute_workflow(compiled_workflow[1], start_node_id.v,
                                           execution_context)]

\* a handler that finds the workflow by the path, in the table of routes
execute_webhook_by_route(registry, workflow_id, webhook_path, body) ==
    LET payload == parse_body(body)
        webhook_path_normalized ==
            IF starts_with(webhook_path, <<"/">>) THEN webhook_path
            ELSE <<"/">> \o webhook_path
        routes == CHOOSE r \in get_webhook_routes(registry) : TRUE
        compiled_workflow ==
            IF webhook_path_normalized \in DOMAIN routes
            THEN get_workflow(registry, routes[webhook_path_normalized])
            ELSE None
        start_node_id == find_webhook_start_node(compiled_workflow[1], webhook_path_normalized)
        execution_context == from_webhook_data(workflow_id, payload.v, "default")
    IN  IF ~payload.ok THEN [status |-> BAD_REQUEST, started |-> {}]
        ELSE IF workflow_id \notin DOMAIN registry \/ compiled_workflow = None
        THEN [status |-> NOT_FOUND, started |-> {}]
        ELSE [status |-> 0,
              started |-> execute_workflow(compiled_workflow[1], start_node_id.v,
                                           execution_context)]

\* execute_webhook up to the engine's first dispatch: the status it returns
\* at once, or (status 0) the executions it can have started
execute_webhook(registry, workflow_id, webhook_path, body) ==
    LET payload == parse_body(body)
        compiled_workflow == get_workflow(registry, workflow_id)
        webhook_path_normalized ==
            IF starts_with(webhook_path, <<"/">>) THEN webhook_path
            ELSE <<"/">> \o webhook_path
        start_node_id == find_webhook_start_node(compiled_workflow[1], webhook_path_normalized)
        execution_context == from_webhook_data(workflow_id, payload.v, "default")
    IN  IF ~payload.ok THEN [status |-> BAD_REQUEST, started |-> {}]
        ELSE IF compiled_workflow = None THEN [status |-> NOT_FOUND, started |-> {}]
        ELSE IF ~start_node_id.ok THEN [status |-> start_node_id.v, started |-> {}]
        ELSE [status |-> 0,
              started |-> execute_workflow(compiled_workflow[1], start_node_id.v,
                                           execution_context)]

\* the response once the engine has returned
webhook_response(e) ==
    IF e.status = "ok" THEN [status |-> HTTP_OK, data |-> e.current_result.data]
    ELSE [status |-> UNPROCESSABLE_ENTITY, data |-> <<>>]

(***************************************************************************)
(* api/workflows.rs, one await at a time: a handler in flight is a record  *)
(* h = [op, id, workflow, pc, compiled, current, status, done] holding its *)
(* position pc, the locals of the registry call it is in (compiled, the    *)
(* snapshot `current` it loaded), its response status (0 until it returns) *)
(* and the writes it has performed.  Handlers run on a multi-threaded      *)
(* runtime, so the registry's load and store are separate steps.           *)
(***************************************************************************)
\* a delete that starts at the registry and leaves the scheduler alone
received_delete_skips_scheduler(op, id, workflow) ==
    [op |-> op, id |-> id, workflow |-> workflow,
     pc |-> IF op = "delete" THEN "remove_load" ELSE "check",
     compiled |-> None, current |-> EmptyMap, status |-> 0, done |-> <<>>]

Received(op, id, workflow) ==
    [op |-> op, id |-> id, workflow |-> workflow,
     pc |-> IF op = "delete" THEN "unschedule" ELSE "check",
     compiled |-> None, current |-> EmptyMap, status |-> 0, done |-> <<>>]

\* a handler that goes through its writes in another order
after_schedule_first(pc) ==
    CASE pc = "check" -> "schedule"
      [] pc = "schedule" -> "save"
      [] pc = "save" -> "reload_get"
      [] pc = "reload_get" -> "reload_load"
      [] pc = "reload_load" -> "reload_store"
      [] pc = "reload_store" -> "returned"
      [] pc = "unschedule" -> "remove_load"
      [] pc = "remove_load" -> "remove_store"
      [] pc = "remove_store" -> "delete_row"
      [] pc = "delete_row" -> "returned"

\* the statement that follows the one at pc when that one has succeeded
after(pc) ==
    CASE pc = "check" -> "save"
      [] pc = "save" -> "reload_get"
      [] pc = "reload_get" -> "reload_load"
      [] pc = "reload_load" -> "reload_store"
      [] pc = "reload_store" -> "schedule"
      [] pc = "schedule" -> "returned"
      [] pc = "unschedule" -> "remove_load"
      [] pc = "remove_load" -> "remove_store"
      [] pc = "remove_store" -> "delete_row"
      [] pc = "delete_row" -> "returned"

Responds(st, h, status) ==
    [st |-> st, h |-> [h EXCEPT !.pc = "returned", !.status = status]]

Continues(st, h) == [st |-> st, h |-> [h EXCEPT !.pc = after(h.pc)]]

\* the write named `write` is performed, then the handler goes on or returns
Wrote(st, h, write, status) ==
    LET did == [h EXCEPT !.done = Append(@, write)]
    IN  IF after(h.pc) = "returned" \/ status # HTTP_OK
        THEN Responds(st, did, status)
        ELSE Continues(st, did)

\* one statement of the handler h on the shared state st
handler_step(st, h) ==
    LET workflow == h.workflow[1]
        cron == [job_uuid_map |-> st.job_uuid_map, scheduler |-> st.scheduler]
        row == get_workflow_row(st.storage, h.id)
        compiled == compile_single_workflow(row[1])
        added == add_or_update_workflow_cron_triggers(cron, workflow)
        removed == remove_workflow_cron_triggers(cron, h.id)
        deleted == delete_workflow_row(st.storage, h.id)
    IN  CASE h.pc = "check" ->
               IF (h.op = "create" /\ workflow.id = <<>>) \/ workflow.name = ""
               THEN Responds(st, h, BAD_REQUEST)
               ELSE IF h.op = "create" /\ row # None THEN Responds(st, h, CONFLICT)
               ELSE IF h.op = "update" /\ row = None THEN Responds(st, h, NOT_FOUND)
               ELSE Continues(st, h)
          [] h.pc = "save" ->
               Wrote([st EXCEPT !.storage = save_workflow(st.storage, workflow)],
                     h, "save", HTTP_OK)
          [] h.pc = "reload_get" ->
               IF row = None \/ ~compiled.ok THEN Responds(st, h, INTERNAL_SERVER_ERROR)
               ELSE Continues(st, [h EXCEPT !.compiled = Some(compiled.v)])
          [] h.pc = "reload_load" ->
               Continues(st, [h EXCEPT !.current = st.workflows])
          [] h.pc = "reload_store" ->
               Wrote([st EXCEPT !.workflows = MapPut(h.current, h.id, h.compiled[1])],
                     h, "reload", HTTP_OK)
          [] h.pc = "schedule" ->
               Wrote([st EXCEPT !.job_uuid_map = added.s.job_uuid_map,
                                !.scheduler = added.s.scheduler],
                     h, "schedule", IF added.ok THEN HTTP_OK ELSE INTERNAL_SERVER_ERROR)
          [] h.pc = "unschedule" ->
               Wrote([st EXCEPT !.job_uuid_map = removed.job_uuid_map,
                                !.scheduler = removed.scheduler],
                     h, "unschedule", HTTP_OK)
          [] h.pc = "remove_load" ->
               Continues(st, [h EXCEPT !.current = st.workflows])
          [] h.pc = "remove_store" ->
               Wrote(IF h.id \in DOMAIN h.current
                     THEN [st EXCEPT !.workflows = MapRemove(h.current, h.id)]
                     ELSE st,
                     h, "remove", HTTP_OK)
          [] h.pc = "delete_row" ->
               IF deleted.existed
               THEN Wrote([st EXCEPT !.storage = deleted.rows], h, "delete", HTTP_OK)
               ELSE Responds(st, [h EXCEPT !.done = Append(@, "delete")], NOT_FOUND)

(***************************************************************************)
(* Requests the model submits                                              *)
(***************************************************************************)
WF1 == <<"w", "1">>
WF10 == <<"w", "1", "0">>
WorkflowIds == {WF1, WF10}

C1 == <<"c", "1">>
C2 == <<"c", "2">>
H == <<"h">>
G == <<"g">>
F == <<"f">>
A == <<"a">>
B == <<"b">>
Z == <<"z">>

EverySecond == "*/1 * * * * *"
Hourly == "0 0 * * * *"

Cron(id, schedule) == Node(id, "CronTrigger", [schedule |-> JStr(schedule)])
Hook(id, path) == Node(id, "Webhook", [path |-> JStr(path), method |-> JStr("POST")])
Fun(id) == Node(id, "FunLogic", [script |-> JStr("return data")])

TwoCrons(id) ==
    Workflow(id, "two crons",
             <<Cron(C1, EverySecond), Cron(C2, EverySecond), Fun(F)>>,
             <<Edge(C1, F), Edge(C2, F)>>)
OneCron(id) ==
    Workflow(id, "one cron", <<Cron(C1, Hourly), Fun(F)>>, <<Edge(C1, F)>>)
Hooks(id) ==
    Workflow(id, "hooks",
             <<Hook(H, "/grade"),
               Node(G, "Webhook", [path |-> JNum("7")]),
               Node(F, "FunLogic", [script |-> JStr("return data"), path |-> JStr("/fun")])>>,
             <<Edge(H, F), Edge(G, F)>>)
NoStart(id) == Workflow(id, "no start", <<Fun(F)>>, <<>>)
Cyclic(id) ==
    Workflow(id, "cyclic", <<Hook(H, "/loop"), Fun(A), Fun(B)>>,
             <<Edge(H, A), Edge(A, B), Edge(B, A)>>)
Orphan(id) ==
    Workflow(id, "orphan", <<Hook(H, "/orphan"), Fun(F)>>, <<Edge(H, F), Edge(F, Z)>>)
Unnamed(id) == Workflow(id, "", <<Hook(H, "/grade"), Fun(F)>>, <<Edge(H, F)>>)
Empty(id) == Workflow(id, "empty", <<>>, <<>>)
\* a second Cron node whose schedule is no cron expression
BadCron(id) ==
    Workflow(id, "bad cron",
             <<Cron(C1, Hourly), Cron(C2, "every day"), Fun(F)>>,
             <<Edge(C1, F), Edge(C2, F)>>)
\* a Cron node without a schedule
NoSchedule(id) ==
    Workflow(id, "no schedule", <<Node(C1, "CronTrigger", EmptyMap), Fun(F)>>,
             <<Edge(C1, F)>>)

Submitted ==
    UNION {{TwoCrons(id), OneCron(id), Hooks(id), NoStart(id), Cyclic(id),
            Orphan(id), Unnamed(id), Empty(id)} : id \in WorkflowIds}

(***************************************************************************)
(* Spec: management requests served one after another                      *)
(***************************************************************************)
NoRequest == [op |-> "none", id |-> <<>>, status |-> 0, reloaded |-> FALSE]

Init ==
    /\ storage = EmptyMap
    /\ workflows = EmptyMap
    /\ job_uuid_map = EmptyMap
    /\ scheduler = EmptyMap
    /\ last = NoRequest
    /\ fired = {}
    /\ executions = <<>>
    /\ webhooks = <<>>
    /\ handlers = <<>>
    /\ project_pools = Unlocked(EmptyMap)
    /\ simpletable_pools = Unlocked(EmptyMap)
    /\ pool_calls = <<>>
    /\ connected = <<>>
    /\ simpletables = EmptyMap
    /\ evaluation = None

CreateWorkflow(payloads) ==
    \E workflow \in payloads :
        /\ Returns("create", workflow.id, create_workflow(app_state, workflow))
        /\ UNCHANGED <<fired, executions, webhooks, handlers,
                       project_pools, simpletable_pools, pool_calls, connected,
                       evaluation, simpletables>>

UpdateWorkflow(ids, payloads) ==
    \E id \in ids, payload \in payloads :
        /\ Returns("update", id, update_workflow(app_state, id, payload))
        /\ UNCHANGED <<fired, executions, webhooks, handlers,
                       project_pools, simpletable_pools, pool_calls, connected,
                       evaluation, simpletables>>

DeleteWorkflow(ids) ==
    \E id \in ids :
        /\ Returns("delete", id, delete_workflow(app_state, id))
        /\ UNCHANGED <<fired, executions, webhooks, handlers,
                       project_pools, simpletable_pools, pool_calls, connected,
                       evaluation, simpletables>>

Next ==
    \/ CreateWorkflow(Submitted)
    \/ UpdateWorkflow(WorkflowIds, Submitted)
    \/ DeleteWorkflow(WorkflowIds)

Spec == Init /\ [][Next]_vars

(***************************************************************************)
(* SpecCron: management requests on one workflow id, with the scheduler    *)
(* runtime firing jobs, job bodies running and executions dispatching      *)
(* their nodes in between                                                  *)
(***************************************************************************)
MaxExecutions == 2

CronSubmitted == {OneCron(WF1), TwoCrons(WF1)}

\* the runtime fires a job it holds: the job's closure is spawned
FireJob ==
    \E uuid \in DOMAIN scheduler :
        /\ fired' = fired \cup {[workflow_id |-> scheduler[uuid].workflow_id,
                                  cron_node_id |-> scheduler[uuid].cron_node_id]}
        /\ UNCHANGED <<storage, workflows, job_uuid_map, scheduler, last, executions, webhooks, handlers,
                       project_pools, simpletable_pools, pool_calls, connected,
                       evaluation, simpletables>>

\* a spawned job body runs up to its first node dispatch
RunJobBody ==
    \E t \in fired :
        \E r \in cron_job_body(workflows, t.workflow_id, t.cron_node_id) :
            /\ r # None => Len(executions) < MaxExecutions
            /\ fired' = fired \ {t}
            /\ executions' = IF r = None THEN executions ELSE Append(executions, r[1])
            /\ last' = [op |-> IF r = None THEN "cron_skip" ELSE "cron_run",
                        id |-> t.workflow_id, status |-> 0, reloaded |-> FALSE]
            /\ UNCHANGED <<storage, workflows, job_uuid_map, scheduler, webhooks, handlers,
                       project_pools, simpletable_pools, pool_calls, connected,
                       evaluation, simpletables>>

\* a running execution performs the next iteration of its loop
RunNode ==
    \E i \in 1..Len(executions) :
        /\ executions[i].status = "running"
        /\ \E e \in next_iteration(executions[i]) :
               executions' = [executions EXCEPT ![i] = e]
        /\ UNCHANGED <<storage, workflows, job_uuid_map, scheduler, last, fired, webhooks, handlers,
                       project_pools, simpletable_pools, pool_calls, connected,
                       evaluation, simpletables>>

NextCron ==
    \/ CreateWorkflow(CronSubmitted)
    \/ UpdateWorkflow({WF1}, CronSubmitted)
    \/ DeleteWorkflow({WF1})
    \/ FireJob
    \/ RunJobBody
    \/ RunNode

SpecCron == Init /\ [][NextCron]_vars

(***************************************************************************)
(* SpecEngine: one execution of the engine, for every workflow over four   *)
(* nodes with at most MaxEdges edges and every entry                       *)
(***************************************************************************)
MaxEdges == 3

X == <<"x">>
M == <<"m">>

EngineNodes(entry_type) ==
    <<Node(H, entry_type, [path |-> JStr("/in"), schedule |-> JStr(EverySecond)]),
      Fun(F),
      Node(X, "HTTPClient", [url |-> JStr("http://example.test")]),
      Node(M, "MCPTrigger", [path |-> JStr("/ai")])>>

\* every edge between two nodes, and one edge to a node that does not exist
EnginePairs ==
    <<Edge(H, F), Edge(H, X), Edge(H, M), Edge(F, H), Edge(F, X), Edge(F, M),
      Edge(X, H), Edge(X, F), Edge(X, M), Edge(M, H), Edge(M, F), Edge(M, X),
      Edge(F, Z)>>

RECURSIVE pick(_, _)
pick(seq, indices) ==
    IF indices = {} THEN <<>>
    ELSE LET i == CHOOSE k \in indices : \A j \in indices : k <= j
         IN  <<seq[i]>> \o pick(seq, indices \ {i})

EngineWorkflows ==
    {Workflow(WF1, "engine", EngineNodes(t), pick(EnginePairs, chosen)) :
        t \in {"Webhook", "CronTrigger"},
        chosen \in {c \in SUBSET (1..Len(EnginePairs)) : Cardinality(c) <= MaxEdges}}

StartExecution ==
    /\ executions = <<>>
    /\ \E workflow \in EngineWorkflows, start_node_id \in {H, F, X, M, Z} :
           \E e \in execute_workflow(compile_single_workflow(workflow).v, start_node_id,
                                     from_webhook_data(workflow.id, JStr("payload"), "default")) :
               executions' = <<e>>
    /\ UNCHANGED <<storage, workflows, job_uuid_map, scheduler, last, fired, webhooks, handlers,
                       project_pools, simpletable_pools, pool_calls, connected,
                       evaluation, simpletables>>

NextEngine == StartExecution \/ RunNode

SpecEngine == Init /\ [][NextEngine]_vars

(***************************************************************************)
(* SpecWebhook: management requests on two workflow ids that declare the   *)
(* same webhook path, with webhook requests arriving, their executions     *)
(* dispatching nodes and their responses being sent in between             *)
(***************************************************************************)
MaxRequests == 1

GradePath == <<"/", "g">>

Flow(id) ==
    Workflow(id, "flow",
             <<Hook(H, GradePath), Fun(F), Node(X, "HTTPClient", [url |-> JStr("http://example.test")])>>,
             <<Edge(H, F), Edge(F, X)>>)

Alt(id) == Workflow(id, "alt", <<Hook(G, GradePath), Fun(A)>>, <<Edge(G, A)>>)

WebhookSubmitted == {Flow(WF1), Alt(WF1), Alt(WF10)}

RequestPaths == {<<"g">>, GradePath, <<"o">>}
RequestBodies == {"\"payload\"", "{"}

\* a request arrives and is served up to the engine's first dispatch
ExecuteWebhook(ids, paths, bodies) ==
    \E workflow_id \in ids, webhook_path \in paths, body \in bodies :
        LET r == execute_webhook(workflows, workflow_id, webhook_path, body)
            request == [workflow_id |-> workflow_id, path |-> webhook_path, body |-> body,
                        status |-> r.status, execution |-> 0, data |-> <<>>]
        IN  /\ Len(webhooks) < MaxRequests
            /\ IF r.status # 0
               THEN /\ webhooks' = Append(webhooks, request)
                    /\ UNCHANGED executions
               ELSE /\ Len(executions) < MaxExecutions
                    /\ \E e \in r.started : executions' = Append(executions, e)
                    /\ webhooks' = Append(webhooks,
                                          [request EXCEPT !.execution = Len(executions) + 1])
            /\ UNCHANGED <<storage, workflows, job_uuid_map, scheduler, last, fired, handlers,
                       project_pools, simpletable_pools, pool_calls, connected,
                       evaluation, simpletables>>

\* the engine has returned to the handler, which responds
WebhookReply ==
    \E i \in 1..Len(webhooks) :
        /\ webhooks[i].status = 0
        /\ executions[webhooks[i].execution].status # "running"
        /\ LET response == webhook_response(executions[webhooks[i].execution])
           IN  webhooks' = [webhooks EXCEPT ![i].status = response.status,
                                            ![i].data = response.data]
        /\ UNCHANGED <<storage, workflows, job_uuid_map, scheduler, last, fired, executions, handlers,
                       project_pools, simpletable_pools, pool_calls, connected,
                       evaluation, simpletables>>

NextWebhook ==
    \/ CreateWorkflow(WebhookSubmitted)
    \/ UpdateWorkflow(WorkflowIds, WebhookSubmitted)
    \/ DeleteWorkflow(WorkflowIds)
    \/ ExecuteWebhook(WorkflowIds, RequestPaths, RequestBodies)
    \/ RunNode
    \/ WebhookReply

SpecWebhook == Init /\ [][NextWebhook]_vars

(***************************************************************************)
(* SpecSnapshot: one workflow id with a Webhook and a Cron entry, reloaded *)
(* and removed while webhook requests and cron ticks start executions      *)
(***************************************************************************)
Both(id) ==
    Workflow(id, "both",
             <<Hook(H, GradePath), Cron(C1, EverySecond), Fun(F),
               Node(X, "HTTPClient", [url |-> JStr("http://example.test")])>>,
             <<Edge(H, F), Edge(C1, F), Edge(F, X)>>)

SnapshotSubmitted == {Both(WF1), Alt(WF1)}

NextSnapshot ==
    \/ CreateWorkflow(SnapshotSubmitted)
    \/ UpdateWorkflow({WF1}, SnapshotSubmitted)
    \/ DeleteWorkflow({WF1})
    \/ ExecuteWebhook({WF1}, {<<"g">>}, {"\"payload\""})
    \/ FireJob
    \/ RunJobBody
    \/ RunNode

SpecSnapshot == Init /\ [][NextSnapshot]_vars

(***************************************************************************)
(* SpecConcurrent: management requests served concurrently, each handler   *)
(* advancing one statement at a time                                       *)
(***************************************************************************)
MaxHandlers == 2

ConcurrentSubmitted == {OneCron(WF1), TwoCrons(WF1), NoStart(WF1), OneCron(WF10)}

ReceiveCreate ==
    \E workflow \in ConcurrentSubmitted :
        /\ Len(handlers) < MaxHandlers
        /\ handlers' = Append(handlers, Received("create", workflow.id, Some(workflow)))
        /\ UNCHANGED <<storage, workflows, job_uuid_map, scheduler, last, fired, executions,
                       webhooks,
                       project_pools, simpletable_pools, pool_calls, connected,
                       evaluation, simpletables>>

\* update_workflow sets the payload's id to the id of the URL
ReceiveUpdate ==
    \E id \in WorkflowIds, payload \in ConcurrentSubmitted :
        /\ Len(handlers) < MaxHandlers
        /\ payload.id = WF1
        /\ handlers' = Append(handlers,
                              Received("update", id, Some([payload EXCEPT !.id = id])))
        /\ UNCHANGED <<storage, workflows, job_uuid_map, scheduler, last, fired, executions,
                       webhooks,
                       project_pools, simpletable_pools, pool_calls, connected,
                       evaluation, simpletables>>

ReceiveDelete ==
    \E id \in WorkflowIds :
        /\ Len(handlers) < MaxHandlers
        /\ handlers' = Append(handlers, Received("delete", id, None))
        /\ UNCHANGED <<storage, workflows, job_uuid_map, scheduler, last, fired, executions,
                       webhooks,
                       project_pools, simpletable_pools, pool_calls, connected,
                       evaluation, simpletables>>

HandlerStep ==
    \E i \in 1..Len(handlers) :
        /\ handlers[i].pc # "returned"
        /\ LET r == handler_step(app_state, handlers[i])
           IN  /\ storage' = r.st.storage
               /\ workflows' = r.st.workflows
               /\ job_uuid_map' = r.st.job_uuid_map
               /\ scheduler' = r.st.scheduler
               /\ handlers' = [handlers EXCEPT ![i] = r.h]
        /\ UNCHANGED <<last, fired, executions, webhooks,
                       project_pools, simpletable_pools, pool_calls, connected,
                       evaluation, simpletables>>

NextConcurrent == ReceiveCreate \/ ReceiveUpdate \/ ReceiveDelete \/ HandlerStep

SpecConcurrent == Init /\ [][NextConcurrent]_vars

(***************************************************************************)
(* SpecSerial: management requests served one at a time, each advancing    *)
(* one statement at a time, with the scheduler runtime firing jobs and job *)
(* bodies looking the workflow up between any two statements               *)
(***************************************************************************)
SerialRequests ==
    {Received("create", workflow.id, Some(workflow)) : workflow \in ConcurrentSubmitted}
        \cup {Received("update", WF1, Some(workflow)) :
                 workflow \in {OneCron(WF1), TwoCrons(WF1), NoStart(WF1)}}
        \cup {Received("delete", id, None) : id \in WorkflowIds}

\* a request is received when every request before it has been answered
ReceiveNext ==
    \E request \in SerialRequests :
        /\ Len(handlers) < MaxHandlers
        /\ \A i \in 1..Len(handlers) : handlers[i].pc = "returned"
        /\ handlers' = Append(handlers, request)
        /\ UNCHANGED <<storage, workflows, job_uuid_map, scheduler, last, fired, executions,
                       webhooks, project_pools, simpletable_pools, pool_calls, connected,
                       evaluation, simpletables>>

NextSerial == ReceiveNext \/ HandlerStep \/ FireJob \/ RunJobBody

SpecSerial == Init /\ [][NextSerial]_vars

(***************************************************************************)
(* SpecRegistry: the store and the registry called directly, one call      *)
(* after another.  `last` is the call that returned last: whether it       *)
(* returned Ok, for a reload how many successful reloads of this id have   *)
(* now run back to back, for a save the workflow it was given.             *)
(***************************************************************************)
RegistrySubmitted == {OneCron(WF1), Hooks(WF1), NoStart(WF1), Hooks(WF10), Alt(WF10)}

Call(op, id, ok, calls, payload) ==
    [op |-> op, id |-> id, ok |-> ok, calls |-> calls, payload |-> payload]

SaveWorkflow ==
    \E workflow \in RegistrySubmitted :
        /\ storage' = save_workflow(storage, workflow)
        /\ last' = Call("save", workflow.id, TRUE, 0, Some(workflow))
        /\ UNCHANGED <<workflows, job_uuid_map, scheduler, fired, executions, webhooks,
                       handlers,
                       project_pools, simpletable_pools, pool_calls, connected,
                       evaluation, simpletables>>

DeleteRow ==
    \E id \in WorkflowIds :
        /\ storage' = delete_workflow_row(storage, id).rows
        /\ last' = Call("delete_row", id, TRUE, 0, None)
        /\ UNCHANGED <<workflows, job_uuid_map, scheduler, fired, executions, webhooks,
                       handlers,
                       project_pools, simpletable_pools, pool_calls, connected,
                       evaluation, simpletables>>

ReloadWorkflow ==
    \E id \in WorkflowIds :
        LET r == reload_workflow(storage, workflows, id)
            repeated == last.op = "reload" /\ last.id = id /\ last.ok
        IN  /\ workflows' = IF r.ok THEN r.v ELSE workflows
            /\ last' = Call("reload", id, r.ok,
                            IF ~r.ok THEN 0 ELSE IF repeated THEN 2 ELSE 1, None)
            /\ UNCHANGED <<storage, job_uuid_map, scheduler, fired, executions, webhooks,
                           handlers,
                       project_pools, simpletable_pools, pool_calls, connected,
                       evaluation, simpletables>>

RemoveWorkflow ==
    \E id \in WorkflowIds :
        /\ workflows' = remove_workflow(workflows, id)
        /\ last' = Call("remove", id, TRUE, 0, None)
        /\ UNCHANGED <<storage, job_uuid_map, scheduler, fired, executions, webhooks,
                       handlers,
                       project_pools, simpletable_pools, pool_calls, connected,
                       evaluation, simpletables>>

NextRegistry == SaveWorkflow \/ DeleteRow \/ ReloadWorkflow \/ RemoveWorkflow

SpecRegistry == Init /\ [][NextRegistry]_vars

(***************************************************************************)
(* SpecScheduler: the scheduler service called directly, one call after    *)
(* another.  `last` is the call that returned last, with the handle map    *)
(* and the jobs it found when it was entered and, for add_or_update, the   *)
(* workflow it was given.                                                  *)
(***************************************************************************)
SchedulerSubmitted ==
    {OneCron(WF1), TwoCrons(WF1), Hooks(WF1), OneCron(WF10), TwoCrons(WF10),
     BadCron(WF1), NoSchedule(WF1)}

scheduler_state == [job_uuid_map |-> job_uuid_map, scheduler |-> scheduler]

AddOrUpdateTriggers ==
    \E workflow \in SchedulerSubmitted :
        LET r == add_or_update_workflow_cron_triggers(scheduler_state, workflow)
        IN  /\ job_uuid_map' = r.s.job_uuid_map
            /\ scheduler' = r.s.scheduler
            /\ last' = [op |-> "add_or_update", id |-> workflow.id, ok |-> r.ok,
                        before |-> scheduler_state, payload |-> workflow]
            /\ UNCHANGED <<storage, workflows, fired, executions, webhooks, handlers,
                       project_pools, simpletable_pools, pool_calls, connected,
                       evaluation, simpletables>>

RemoveTriggers ==
    \E id \in WorkflowIds :
        LET s == remove_workflow_cron_triggers(scheduler_state, id)
        IN  /\ job_uuid_map' = s.job_uuid_map
            /\ scheduler' = s.scheduler
            /\ last' = [op |-> "remove", id |-> id, ok |-> TRUE,
                        before |-> scheduler_state]
            /\ UNCHANGED <<storage, workflows, fired, executions, webhooks, handlers,
                       project_pools, simpletable_pools, pool_calls, connected,
                       evaluation, simpletables>>

NextScheduler == AddOrUpdateTriggers \/ RemoveTriggers

SpecScheduler == Init /\ [][NextScheduler]_vars

(***************************************************************************)
(* SpecJobs: calls of the scheduler service running concurrently on one    *)
(* workflow id, each advancing from one lock acquisition to the next       *)
(***************************************************************************)
JobsSubmitted == {OneCron(WF1), TwoCrons(WF1), BadCron(WF1), Hooks(WF1)}

EnterAddOrUpdate ==
    \E workflow \in JobsSubmitted :
        /\ Len(handlers) < MaxHandlers
        /\ handlers' = Append(handlers,
                              SchedulerCall("add_or_update", workflow.id,
                                            SelectSeq(workflow.nodes, is_cron)))
        /\ UNCHANGED <<storage, workflows, job_uuid_map, scheduler, last, fired, executions,
                       webhooks, project_pools, simpletable_pools, pool_calls, connected,
                       evaluation, simpletables>>

EnterRemove ==
    /\ Len(handlers) < MaxHandlers
    /\ handlers' = Append(handlers, SchedulerCall("remove", WF1, <<>>))
    /\ UNCHANGED <<storage, workflows, job_uuid_map, scheduler, last, fired, executions,
                   webhooks, project_pools, simpletable_pools, pool_calls, connected,
                   evaluation, simpletables>>

SchedulerCallStep ==
    \E i \in 1..Len(handlers) :
        /\ handlers[i].pc # "returned"
        /\ LET r == scheduler_call_step(scheduler_state, handlers[i])
           IN  /\ job_uuid_map' = r.s.job_uuid_map
               /\ scheduler' = r.s.scheduler
               /\ handlers' = [handlers EXCEPT ![i] = r.c]
        /\ UNCHANGED <<storage, workflows, last, fired, executions, webhooks,
                       project_pools, simpletable_pools, pool_calls, connected,
                       evaluation, simpletables>>

NextJobs == EnterAddOrUpdate \/ EnterRemove \/ SchedulerCallStep

SpecJobs == Init /\ [][NextJobs]_vars

(***************************************************************************)
(* SpecStart: the server has loaded the registry from the store and        *)
(* spawned start(); management requests are served while start() runs.     *)
(* The ids are no prefix of one another and every payload has at most the  *)
(* Cron node c1, so that handles are replaced and removed exactly.         *)
(***************************************************************************)
WF2 == <<"w", "2">>
StartIds == {WF1, WF2}

Rescheduled(id) ==
    Workflow(id, "rescheduled", <<Cron(C1, EverySecond), Fun(F)>>, <<Edge(C1, F)>>)

StartSubmitted ==
    UNION {{OneCron(id), Rescheduled(id), Flow(id)} : id \in StartIds}

\* the stores the server can find at startup
RECURSIVE save_all(_, _)
save_all(rows, stored) ==
    IF stored = {} THEN rows
    ELSE LET workflow == CHOOSE w \in stored : TRUE
         IN  save_all(save_workflow(rows, workflow), stored \ {workflow})

StartupStores ==
    {save_all(EmptyMap, stored) :
        stored \in {S \in SUBSET StartSubmitted :
                       \A v, w \in S : v.id = w.id => v = w}}

InitStart ==
    /\ storage \in StartupStores
    /\ workflows = init_from_storage(storage).v
    /\ job_uuid_map = EmptyMap
    /\ scheduler = EmptyMap
    /\ last = NoRequest
    /\ fired = {}
    /\ executions = <<>>
    /\ webhooks = <<>>
    /\ handlers = <<StartCall>>
    /\ project_pools = Unlocked(EmptyMap)
    /\ simpletable_pools = Unlocked(EmptyMap)
    /\ pool_calls = <<>>
    /\ connected = <<>>
    /\ simpletables = EmptyMap
    /\ evaluation = None

StartStep ==
    /\ handlers[1].pc \notin {"started", "failed"}
    /\ \E r \in start_step(workflows, scheduler_state, handlers[1]) :
           /\ job_uuid_map' = r.s.job_uuid_map
           /\ scheduler' = r.s.scheduler
           /\ handlers' = <<r.c>>
    /\ UNCHANGED <<storage, workflows, last, fired, executions, webhooks, project_pools,
                   simpletable_pools, pool_calls, connected, evaluation,
                   simpletables>>

NextStart ==
    \/ StartStep
    \/ CreateWorkflow(StartSubmitted)
    \/ UpdateWorkflow(StartIds, StartSubmitted)
    \/ DeleteWorkflow(StartIds)

SpecStart == InitStart /\ [][NextStart]_vars

(***************************************************************************)
(* SpecPools: calls of get_project_pool and get_simpletable_pool arriving  *)
(* on a multi-threaded runtime and advancing one step at a time            *)
(***************************************************************************)
MaxPoolCalls == 3

Slugs == {"default", "acme"}

GetPool ==
    \E kind \in {"project", "simpletable"}, project_slug \in Slugs :
        /\ Len(pool_calls) < MaxPoolCalls
        /\ pool_calls' = Append(pool_calls, PoolCall(kind, project_slug))
        /\ UNCHANGED <<storage, workflows, job_uuid_map, scheduler, last, fired, executions,
                       webhooks, handlers, project_pools, simpletable_pools, connected,
                       evaluation, simpletables>>

ProjectPoolStep ==
    \E i \in 1..Len(pool_calls) :
        /\ pool_calls[i].kind = "project"
        /\ pool_step_enabled(project_pools, pool_calls[i], i)
        /\ LET r == get_pool_step(project_pools, pool_calls[i], i, connected)
           IN  /\ project_pools' = r.pools
               /\ pool_calls' = [pool_calls EXCEPT ![i] = r.c]
               /\ connected' = r.opened
        /\ UNCHANGED <<storage, workflows, job_uuid_map, scheduler, last, fired, executions,
                       webhooks, handlers, simpletable_pools, evaluation,
                       simpletables>>

SimpletablePoolStep ==
    \E i \in 1..Len(pool_calls) :
        /\ pool_calls[i].kind = "simpletable"
        /\ pool_step_enabled(simpletable_pools, pool_calls[i], i)
        /\ LET r == get_pool_step(simpletable_pools, pool_calls[i], i, connected)
           IN  /\ simpletable_pools' = r.pools
               /\ pool_calls' = [pool_calls EXCEPT ![i] = r.c]
               /\ connected' = r.opened
        /\ UNCHANGED <<storage, workflows, job_uuid_map, scheduler, last, fired, executions,
                       webhooks, handlers, project_pools, evaluation, simpletables>>

NextPools == GetPool \/ ProjectPoolStep \/ SimpletablePoolStep

SpecPools == Init /\ [][NextPools]_vars

(***************************************************************************)
(* SpecSecrets: a webhook workflow with a PostgreSQL node in the middle,   *)
(* replaced by definitions with other `secrets` lists while requests come  *)
(***************************************************************************)
P == <<"p">>

PgMain == SecretPrefix \o <<"p", "g">>
PlainUrl == <<"p", "g", ":", "/", "/">>

SecretLists ==
    {None, Some(<<>>), Some(<<PgMain>>), Some(<<PlainUrl>>), Some(<<PgMain, PlainUrl>>)}

\* Webhook h -> FunLogic f -> PostgreSQL node p -> FunLogic a
Pg(id, node_type, secrets) ==
    Workflow(id, "pg",
             <<Hook(H, GradePath), Fun(F),
               [Node(P, node_type, [query |-> JStr("SELECT 1"), table |-> JStr("t"),
                                    columns |-> JArr(<<JStr("c")>>)])
                   EXCEPT !.secrets = secrets, !.inputs = Some(<<>>)],
               Fun(A)>>,
             <<Edge(H, F), Edge(F, P), Edge(P, A)>>)

SecretSubmitted ==
    {Pg(WF1, "PGQuery", secrets) : secrets \in SecretLists}
        \cup {Pg(WF1, "PGDynTableWriter", secrets) : secrets \in {None, Some(<<PgMain>>)}}

NextSecrets ==
    \/ CreateWorkflow(SecretSubmitted)
    \/ UpdateWorkflow({WF1}, SecretSubmitted)
    \/ ExecuteWebhook({WF1}, {<<"g">>}, {"\"payload\""})
    \/ RunNode
    \/ WebhookReply

SpecSecrets == Init /\ [][NextSecrets]_vars

(***************************************************************************)
(* SpecPins: one input pin evaluated against one execution context.  The   *)
(* initial state holds the pin and the context, EvaluatePin the branch     *)
(* taken by evaluate_input_pins and what it returned.                      *)
(***************************************************************************)
Repeat(c, n) == [i \in 1..n |-> c]

\* pins that read the data array
JsonPins ==
    {<<"$", "j", "s", "o", "n">>,
     <<"$", "j", "s", "o", "n", ".", "a">>,
     <<"$", "j", "s", "o", "n", ".", "a", ".", "b">>,
     <<"$", "j", "s", "o", "n", ".", "a", ".", "b", ".", "c">>,
     <<"$", "j", "s", "o", "n", ".", "x">>,
     <<"$", "j", "s", "o", "n", ".", "a", ".", "x">>,
     <<"$", "j", "s", "o", "n", ".", "s", ".", "b">>,
     <<"$", "j", "s", "o", "n", ".", "a", ".", "b", ".", "c", ".", "d">>,
     <<"$", "j", "s", "o", "n", ".">>,
     <<"$", "j", "s", "o", "n", ".", "a", ".", ".", "b">>,
     <<"$", "j", "s", "o", "n", ".", "l", ".", "0">>,
     <<"$", "j", "s", "o", "n", ".", "m", "a", "t", "h", ".", "x">>}

\* pins that read the other sources of the context
SourcePins ==
    {<<"$", "q", "u", "e", "r", "y", ".", "q">>,
     <<"$", "h", "e", "a", "d", "e", "r", "s", ".", "h">>,
     <<"$", "f", "i", "l", "e", ".", "f">>,
     <<"$", "w", "e", "b", "s", "o", "c", "k", "e", "t", ".", "w">>,
     <<"$", "m", "q", "t", "t", ".", "m">>,
     <<"$", "m", "c", "p", ".", "m">>}

\* pins without a source prefix
PlainPins ==
    {<<"o", "s", ".", "t", "i", "m", "e", "(", ")">>,
     <<"r", "e", "q", "u", "i", "r", "e", " ", "x">>,
     <<"d", "o", "w", "n", "l", "o", "a", "d">>,
     <<"n", "o", "w", "(", ")">>,
     <<"m", "a", "t", "h", ".", "m", "a", "x", "(", "1", ",", " ", "2", ")", " ", ">", " ", "0">>,
     <<"1", " ", "+", " ", "2">>,
     <<"s", "c", "o", "r", "e">>,
     <<"a", " ", "<", " ", "b">>,
     <<"$", "j", "s", "o", "n", "x">>,
     <<"\"", "a", ":", "b", "\"">>,
     <<"\"", "d", "o", "w", "n", "l", "o", "a", "d", "\"">>}

\* pins around the length limit of a simple expression; the last two hold
\* two-byte letters
LongPins ==
    {Repeat("a", MaxExprLen - 1),
     Repeat("a", MaxExprLen),
     <<"m", "a", "t", "h", ".">> \o Repeat("a", MaxExprLen),
     Repeat("7", MaxExprLen),
     Repeat("U+00E9", MaxExprLen \div 2),
     Repeat("U+00E9", (MaxExprLen \div 2) - 1)}

Pins == JsonPins \cup SourcePins \cup PlainPins \cup LongPins

Key(c) == <<c>>
Nested ==
    JObj((Key("a") :> JObj((Key("b") :> JObj(Key("c") :> JNum(<<"1">>)))
                           @@ (<<>> :> JStr(<<"e">>))))
         @@ (Key("s") :> JStr(<<"b">>))
         @@ (Key("l") :> JArr(<<JNum(<<"0">>)>>))
         @@ (<<"m", "a", "t", "h">> :> JObj(Key("x") :> JNum(<<"2">>))))
Flat == JObj((Key("a") :> JNum(<<"3">>)) @@ (<<>> :> JNum(<<"4">>)))
Sensor ==
    JObj((<<"w", "e", "b", "s", "o", "c", "k", "e", "t">> :> JObj(Key("w") :> JNum(<<"5">>)))
         @@ (<<"m", "q", "t", "t">> :> JStr(<<"m">>)))

PinContext(data, query) ==
    [data |-> data,
     files |-> IF query = EmptyMap THEN EmptyMap
               ELSE Key("f") :> [filename |-> "f.txt", content_type |-> "text/plain",
                                 size |-> 1, path |-> "uploads/f.txt"],
     query |-> query,
     headers |-> query,
     metadata |-> EmptyMap,
     project_slug |-> "default"]

PinContexts ==
    {PinContext(data, query) :
        data \in {<<>>, <<Nested>>, <<Flat, Nested>>, <<JStr(<<"a">>)>>, <<JNull>>, <<Sensor>>},
        query \in {EmptyMap, (Key("q") :> <<"1">>) @@ (Key("h") :> <<"2">>)}}

Evaluation(pin_expr, context, via, result) ==
    [pin_expr |-> pin_expr, context |-> context, via |-> via, result |-> result]

InitPins ==
    /\ storage = EmptyMap
    /\ workflows = EmptyMap
    /\ job_uuid_map = EmptyMap
    /\ scheduler = EmptyMap
    /\ last = NoRequest
    /\ fired = {}
    /\ executions = <<>>
    /\ webhooks = <<>>
    /\ handlers = <<>>
    /\ project_pools = Unlocked(EmptyMap)
    /\ simpletable_pools = Unlocked(EmptyMap)
    /\ pool_calls = <<>>
    /\ connected = <<>>
    /\ simpletables = EmptyMap
    /\ evaluation \in {Some(Evaluation(pin_expr, context, "", None)) :
                          pin_expr \in Pins, context \in PinContexts}

EvaluatePin ==
    /\ evaluation # None
    /\ evaluation[1].result = None
    /\ \E r \in evaluate_input_pin(evaluation[1].pin_expr, evaluation[1].context) :
           evaluation' = Some(Evaluation(evaluation[1].pin_expr, evaluation[1].context,
                                         r.via, Some(r.result)))
    /\ UNCHANGED <<storage, workflows, job_uuid_map, scheduler, last, fired, executions,
                   webhooks, handlers, project_pools, simpletable_pools, pool_calls,
                   connected, simpletables>>

NextPins == EvaluatePin
SpecPins == InitPins /\ [][NextPins]_vars

(***************************************************************************)
(* SpecLua: one FunLogic node run on what its script returned              *)
(***************************************************************************)
InvalidUtf8 == <<"a", "0xFF">>

\* the values the scripts return
LuaValues ==
    {LuaNil, LuaBoolean(TRUE), LuaInteger(7), LuaInteger(0), LuaInteger(0 - 3),
     LuaNumber(<<"1", ".", "5">>), LuaNumber(<<"NaN">>), LuaNumber(<<"inf">>),
     LuaString(<<"a">>), LuaString(<<>>), LuaString(InvalidUtf8), LuaFunction,
     LuaTable(EmptyMap),
     LuaTable(LuaInteger(1) :> LuaInteger(7)),
     LuaTable((LuaInteger(1) :> LuaInteger(7)) @@ (LuaInteger(2) :> LuaString(<<"a">>))),
     LuaTable((LuaInteger(1) :> LuaInteger(1)) @@ (LuaInteger(3) :> LuaInteger(3))),
     LuaTable(LuaInteger(2) :> LuaInteger(2)),
     LuaTable(LuaInteger(0) :> LuaInteger(1)),
     LuaTable((LuaInteger(0 - 1) :> LuaInteger(1)) @@ (LuaInteger(1) :> LuaInteger(1))),
     LuaTable(LuaString(<<"a">>) :> LuaInteger(1)),
     LuaTable((LuaInteger(1) :> LuaInteger(1)) @@ (LuaString(<<"a">>) :> LuaInteger(2))),
     LuaTable((LuaInteger(1) :> LuaTable(LuaInteger(1) :> LuaInteger(1)))
              @@ (LuaInteger(2) :> LuaTable(EmptyMap))),
     LuaTable(LuaInteger(1) :> LuaTable(EmptyMap)),
     LuaTable(LuaInteger(1) :> LuaNil),
     LuaTable(LuaInteger(1) :> LuaString(InvalidUtf8)),
     LuaTable(LuaString(InvalidUtf8) :> LuaInteger(1)),
     LuaTable(LuaBoolean(TRUE) :> LuaInteger(1)),
     LuaTable(LuaNumber(<<"1", ".", "5">>) :> LuaInteger(1)),
     LuaTable(LuaString(<<"a">>) :> LuaTable((LuaInteger(1) :> LuaInteger(1))
                                             @@ (LuaInteger(2) :> LuaInteger(2))))}

\* what lua.load(script).eval() can return
LuaResults == {Ok(lua_value) : lua_value \in LuaValues} \cup {Err("runtime error")}

FunLogicNodes ==
    {Fun(F), Node(F, "FunLogic", EmptyMap), Node(F, "FunLogic", [script |-> JNull])}

FunLogicRun(node, context, lua_result, result) ==
    [node |-> node, context |-> context, lua_result |-> lua_result, result |-> result]

InitLua ==
    /\ storage = EmptyMap
    /\ workflows = EmptyMap
    /\ job_uuid_map = EmptyMap
    /\ scheduler = EmptyMap
    /\ last = NoRequest
    /\ fired = {}
    /\ executions = <<>>
    /\ webhooks = <<>>
    /\ handlers = <<>>
    /\ project_pools = Unlocked(EmptyMap)
    /\ simpletable_pools = Unlocked(EmptyMap)
    /\ pool_calls = <<>>
    /\ connected = <<>>
    /\ simpletables = EmptyMap
    /\ evaluation \in {Some(FunLogicRun(node, context, lua_result, None)) :
                          node \in FunLogicNodes, context \in PinContexts,
                          lua_result \in LuaResults}

ExecuteFunLogic ==
    /\ evaluation # None
    /\ evaluation[1].result = None
    /\ evaluation' = Some(FunLogicRun(evaluation[1].node, evaluation[1].context,
                                      evaluation[1].lua_result,
                                      Some(execute_fun_logic_node(evaluation[1].node,
                                                                  evaluation[1].context,
                                                                  evaluation[1].lua_result))))
    /\ UNCHANGED <<storage, workflows, job_uuid_map, scheduler, last, fired, executions,
                   webhooks, handlers, project_pools, simpletable_pools, pool_calls,
                   connected, simpletables>>

NextLua == ExecuteFunLogic
SpecLua == InitLua /\ [][NextLua]_vars

(***************************************************************************)
(* runtime/executor.rs: the simple-table nodes.  The SQLite database of a  *)
(* project is table name -> [columns, rows]; a row gives each column its   *)
(* text or NULL (None), and its id is its position, as AUTOINCREMENT       *)
(* numbers the rows of a table that loses none.  env is what the nodes     *)
(* work on: the pool map, the pools opened, and the databases by slug.     *)
(***************************************************************************)
\* get_simpletable_pool run to its return with no other call in flight;
\* create_if_missing makes the database file of a project that has none
get_simpletable_pool(env, project_slug) ==
    IF project_slug \in DOMAIN env.pools.map
    THEN env
    ELSE [pools |-> [env.pools EXCEPT !.map = MapPut(@, project_slug, Len(env.opened) + 1)],
          opened |-> Append(env.opened,
                            [kind |-> "simpletable", project_slug |-> project_slug]),
          dbs |-> IF project_slug \in DOMAIN env.dbs THEN env.dbs
                  ELSE MapPut(env.dbs, project_slug, EmptyMap)]

\* name.chars().all(|c| c.is_alphanumeric() || c == '_')
valid_identifier(name) ==
    \A i \in 1..Len(name) : is_alphanumeric(name[i]) \/ name[i] = "_"

\* what SQLite reads as one unquoted name: not empty, no digit in front
sql_identifier(name) == name # <<>> /\ name[1] \notin AsciiDigits

\* CREATE TABLE IF NOT EXISTS table_name (id INTEGER PRIMARY KEY
\* AUTOINCREMENT, <column> TEXT, ...)
create_table_if_not_exists(db, table_name, columns) ==
    LET declared == <<<<"i", "d">>>> \o columns
    IN  IF ~sql_identifier(table_name)
           \/ \E i \in 1..Len(columns) : ~sql_identifier(columns[i])
        THEN Err("syntax error")
        ELSE IF table_name \in DOMAIN db THEN Ok(db)
        ELSE IF \E i, j \in 1..Len(declared) : i # j /\ declared[i] = declared[j]
        THEN Err("duplicate column name")
        ELSE Ok(MapPut(db, table_name, [columns |-> columns, rows |-> <<>>]))

\* ensure_table_exists(table_name, columns, project_slug)
ensure_table_exists(env, table_name, columns, project_slug) ==
    IF ~valid_identifier(table_name)
    THEN [result |-> Err("Invalid table name"), env |-> env]
    ELSE IF \E i \in 1..Len(columns) : ~valid_identifier(columns[i])
    THEN [result |-> Err("Invalid column name"), env |-> env]
    ELSE LET pooled == get_simpletable_pool(env, project_slug)
             created == create_table_if_not_exists(pooled.dbs[project_slug],
                                                   table_name, columns)
         IN  IF ~created.ok THEN [result |-> created, env |-> pooled]
             ELSE [result |-> Ok(<<>>),
                   env |-> [pooled EXCEPT !.dbs[project_slug] = created.v]]

\* the loop of evaluate_input_pins: the values of the pins in order, or the
\* error of the first pin that fails
RECURSIVE evaluate_input_pins(_, _)
evaluate_input_pins(pins, context) ==
    IF pins = <<>> THEN {Ok(<<>>)}
    ELSE UNION {IF ~r.result.ok THEN {r.result}
                ELSE {IF rest.ok THEN Ok(<<r.result.v>> \o rest.v) ELSE rest :
                         rest \in evaluate_input_pins(Tail(pins), context)} :
                   r \in evaluate_input_pin(Head(pins), context)}

\* query_builder.bind(value) into a TEXT column: the text stored, None for
\* NULL.  The values of the runs are strings, numbers, booleans and null.
bind(value) ==
    CASE value.t = "str" -> Some(value.v)
      [] value.t = "num" -> Some(value.v)
      [] value.t = "bool" -> Some(IF value.b THEN <<"1">> ELSE <<"0">>)
      [] value.t = "null" -> None

\* INSERT INTO table_name (columns) VALUES (?, ...); the table exists
insert_into(db, table_name, columns, values) ==
    LET table == db[table_name]
    IN  IF \E i \in 1..Len(columns) : columns[i] \notin Range(table.columns)
        THEN Err("no such column")
        ELSE Ok([db EXCEPT ![table_name].rows =
                    Append(@, [column \in Range(table.columns) |->
                                  IF column \in Range(columns)
                                  THEN bind(values[CHOOSE i \in 1..Len(columns) :
                                                       columns[i] = column])
                                  ELSE None])])

\* c.as_array() ... filter_map(|c| c.as_str())
string_items(arr) ==
    LET strs == SelectSeq(arr, LAMBDA c : c.t = "str")
    IN  [i \in 1..Len(strs) |-> strs[i].v]

\* first_item.get(column).unwrap_or(&Value::Null)
get_or_null(data, column) ==
    IF data # <<>> /\ data[1].t = "obj" /\ column \in DOMAIN data[1].v
    THEN data[1].v[column]
    ELSE JNull

TableKey == <<"t", "a", "b", "l", "e">>
ColumnsKey == <<"c", "o", "l", "u", "m", "n", "s">>
ValuesKey == <<"v", "a", "l", "u", "e", "s">>
ResultsKey == <<"r", "e", "s", "u", "l", "t", "s">>
CountKey == <<"c", "o", "u", "n", "t">>

\* the response of a write
inserted_response(table_name, columns, values, id) ==
    JObj((<<"i", "n", "s", "e", "r", "t", "e", "d", "_", "d", "a", "t", "a">> :>
             JObj((TableKey :> JStr(table_name))
                  @@ (ColumnsKey :> JArr([i \in 1..Len(columns) |-> JStr(columns[i])]))
                  @@ (ValuesKey :> JArr(values))))
         @@ (<<"_", "i", "n", "s", "e", "r", "t", "e", "d", "_", "i", "d">> :>
                JNum(integer_to_string(id)))
         @@ (<<"_", "r", "o", "w", "s", "_", "a", "f", "f", "e", "c", "t", "e", "d">> :>
                JNum(<<"1">>))
         @@ (<<"_", "s", "u", "c", "c", "e", "s", "s">> :> JBool(TRUE)))

\* execute_simple_table_writer_node(node, context): the results it can
\* return, each with what it leaves of env
execute_simple_table_writer_node(env, node, context) ==
    LET fail(e, left) == {[result |-> Err(e), env |-> left]}
        table_name == get_str(node.params, "table")
        has_columns == "columns" \in DOMAIN node.params /\ node.params["columns"].t = "arr"
        columns == string_items(node.params["columns"].v)
    IN  IF table_name = None
        THEN fail("SimpleTableWriterNode missing 'table' parameter", env)
        ELSE IF ~has_columns
        THEN fail("SimpleTableWriterNode missing 'columns' parameter", env)
        ELSE IF columns = <<>>
        THEN fail("SimpleTableWriterNode 'columns' cannot be empty", env)
        ELSE LET ensured == ensure_table_exists(env, table_name[1], columns,
                                                context.project_slug)
                 candidates ==
                     IF node.inputs # None
                     THEN evaluate_input_pins(node.inputs[1], context)
                     ELSE {Ok([i \in 1..Len(columns) |->
                                  get_or_null(context.data, columns[i])])}
                 written(values) ==
                     LET pooled == get_simpletable_pool(ensured.env, context.project_slug)
                         db == pooled.dbs[context.project_slug]
                         inserted == insert_into(db, table_name[1], columns, values)
                     IN  IF ~inserted.ok
                         THEN [result |-> inserted, env |-> pooled]
                         ELSE [result |->
                                  Ok([data |-> <<inserted_response(
                                                    table_name[1], columns, values,
                                                    Len(db[table_name[1]].rows) + 1)>>,
                                      metadata |-> context.metadata,
                                      should_continue |-> TRUE]),
                               env |-> [pooled EXCEPT
                                           !.dbs[context.project_slug] = inserted.v]]
             IN  IF ~ensured.result.ok THEN {ensured}
                 ELSE IF node.inputs # None /\ Len(node.inputs[1]) # Len(columns)
                 THEN fail("Input pins count must match columns count", ensured.env)
                 ELSE {IF ~values.ok THEN [result |-> values, env |-> ensured.env]
                       ELSE written(values.v) : values \in candidates}

\* str::parse::<i64> of a text of digits
RECURSIVE parse_digits(_)
parse_digits(text) ==
    LET value(c) == CHOOSE d \in 0..9 : integer_to_string(d) = <<c>>
    IN  IF text = <<>> THEN 0
        ELSE 10 * parse_digits(SubSeq(text, 1, Len(text) - 1)) + value(text[Len(text)])

is_digits(text) == text # <<>> /\ \A i \in 1..Len(text) : text[i] \in AsciiDigits

\* the JSON value of a column read as Option<String>: an integer, a decimal
\* number, a boolean or the text itself; Null for NULL.  Signs, exponents
\* and the spellings of infinity are not among the texts of the runs.
column_json(value) ==
    IF value = None THEN JNull
    ELSE LET v == value[1]
             point == {i \in 1..Len(v) : v[i] = "."}
         IN  IF is_digits(v) THEN JNum(integer_to_string(parse_digits(v)))
             ELSE IF /\ Cardinality(point) = 1
                     /\ is_digits(SelectSeq(v, LAMBDA c : c # "."))
             THEN JNum(v)
             ELSE IF v \in {<<"t", "r", "u", "e">>, <<"f", "a", "l", "s", "e">>}
             THEN JBool(v = <<"t", "r", "u", "e">>)
             ELSE JStr(v)

\* the record of one row: every column of the table read as Option<String>.
\* The id column is an INTEGER, which try_get refuses to decode as text, and
\* unwrap_or(None) turns the refusal into Null.
row_json(table, id) ==
    JObj([column \in {<<"i", "d">>} \cup Range(table.columns) |->
             IF column = <<"i", "d">> THEN JNull
             ELSE column_json(table.rows[id][column])])

\* the order of the texts SQLite compares, byte by byte
Collation ==
    <<"0", "1", "2", "3", "4", "5", "6", "7", "8", "9",
      "A", "B", "C", "D", "E", "F", "G", "H", "I", "J", "K", "L", "M",
      "N", "O", "P", "Q", "R", "S", "T", "U", "V", "W", "X", "Y", "Z",
      "a", "b", "c", "d", "e", "f", "g", "h", "i", "j", "k", "l", "m",
      "n", "o", "p", "q", "r", "s", "t", "u", "v", "w", "x", "y", "z">>

RECURSIVE text_less(_, _)
text_less(a, b) ==
    LET rank(c) == CHOOSE i \in 1..Len(Collation) : Collation[i] = c
    IN  IF b = <<>> THEN FALSE
        ELSE IF a = <<>> THEN TRUE
        ELSE IF a[1] = b[1] THEN text_less(Tail(a), Tail(b))
        ELSE rank(a[1]) < rank(b[1])

\* the ids of the rows a WHERE clause keeps.  The clauses SQLite is given
\* here are <column><operator><digit> over one-letter columns: the literal is
\* compared as text with the TEXT column.  Every other clause of the runs is
\* one SQLite cannot prepare.
sqlite_where(table, where_clause) ==
    IF /\ Len(where_clause) = 3
       /\ <<where_clause[1]>> \in Range(table.columns)
       /\ where_clause[2] \in {">", "<", "="}
       /\ where_clause[3] \in AsciiDigits
    THEN LET keeps(row) ==
                 LET value == row[<<where_clause[1]>>]
                 IN  /\ value # None
                     /\ CASE where_clause[2] = ">" -> text_less(<<where_clause[3]>>, value[1])
                          [] where_clause[2] = "<" -> text_less(value[1], <<where_clause[3]>>)
                          [] where_clause[2] = "=" -> value[1] = <<where_clause[3]>>
         IN  Ok({id \in 1..Len(table.rows) : keeps(table.rows[id])})
    ELSE Err("syntax error")

\* SELECT * FROM table_name [WHERE where_clause] ORDER BY id DESC LIMIT
\* limit: the ids of the rows fetched, in order
fetch_all(db, table_name, where_clause, limit) ==
    IF ~sql_identifier(table_name) THEN Err("syntax error")
    ELSE IF table_name \notin DOMAIN db THEN Err("no such table")
    ELSE LET table == db[table_name]
             kept == IF where_clause = None THEN Ok(1..Len(table.rows))
                     ELSE sqlite_where(table, where_clause[1])
         IN  IF ~kept.ok THEN kept
             ELSE LET descending ==
                          SelectSeq([i \in 1..Len(table.rows) |-> Len(table.rows) + 1 - i],
                                    LAMBDA id : id \in kept.v)
                  IN  Ok(IF Len(descending) <= limit THEN descending
                         ELSE SubSeq(descending, 1, limit))

\* LIMIT 100
DEFAULT_LIMIT == 100

\* node.params.get("limit").and_then(|l| l.as_u64())
as_u64(params, key) ==
    IF key \in DOMAIN params /\ params[key].t = "num" /\ is_digits(params[key].v)
    THEN Some(parse_digits(params[key].v))
    ELSE None

WhereChars == {" ", ">", "<", "=", "!", "(", ")", ".", "_"}

\* a reader that puts every `where` it is given into the query
where_clause_unchecked(node) == get_str(node.params, "where")

\* the WHERE clause the query gets: the `where` parameter when all its
\* characters are alphanumeric or among " ><=!()._", and none otherwise
where_clause(node) ==
    LET w == get_str(node.params, "where")
    IN  IF w # None /\ \A i \in 1..Len(w[1]) :
                           is_alphanumeric(w[1][i]) \/ w[1][i] \in WhereChars
        THEN w
        ELSE None

\* execute_simple_table_reader_node(node, context): its result and what it
\* leaves of env
execute_simple_table_reader_node(env, node, context) ==
    LET table_name == get_str(node.params, "table")
    IN  IF table_name = None
        THEN [result |-> Err("SimpleTableReaderNode missing 'table' parameter"),
              env |-> env]
        ELSE IF ~valid_identifier(table_name[1])
        THEN [result |-> Err("Invalid table name"), env |-> env]
        ELSE LET limit == IF as_u64(node.params, "limit") # None
                          THEN as_u64(node.params, "limit")[1]
                          ELSE DEFAULT_LIMIT
                 pooled == get_simpletable_pool(env, context.project_slug)
                 db == pooled.dbs[context.project_slug]
                 rows == fetch_all(db, table_name[1], where_clause(node), limit)
             IN  IF ~rows.ok
                 THEN [result |-> Err("Database query failed"), env |-> pooled]
                 ELSE LET results == [i \in 1..Len(rows.v) |->
                                         row_json(db[table_name[1]], rows.v[i])]
                          response_data ==
                              JObj((ResultsKey :> JArr(results))
                                   @@ (CountKey :> JNum(integer_to_string(Len(results))))
                                   @@ (TableKey :> JStr(table_name[1])))
                      IN  [result |-> Ok([data |-> <<response_data>>,
                                          metadata |-> context.metadata,
                                          should_continue |-> TRUE]),
                           env |-> pooled]

(***************************************************************************)
(* SpecTables: writer and reader nodes run one after another on the        *)
(* simple-table database of the project "default"                          *)
(***************************************************************************)
MaxRows == 2

ColS == <<"s">>
ColN == <<"n">>
TableT == <<"t">>
TableU == <<"u">>
TableBig == <<"b", "i", "g">>

Writer(table, columns, inputs) ==
    [Node(<<"w">>, "SimpleTableWriter",
          [table |-> JStr(table),
           columns |-> JArr([i \in 1..Len(columns) |-> JStr(columns[i])])])
        EXCEPT !.inputs = inputs]

WriterNodes ==
    {Writer(TableT, <<ColS, ColN>>, None),
     Writer(TableT, <<ColS>>, None),
     Writer(TableT, <<ColS, ColN>>, Some(<<JsonPrefix \o ColS>>)),
     Writer(TableT, <<ColS, ColN>>, Some(<<JsonPrefix \o ColS, JsonPrefix \o ColN>>)),
     Writer(TableU, <<ColS>>, Some(<<>>)),
     Writer(<<"t", ";">>, <<ColS>>, None),
     Writer(TableT, <<<<"s", "-">>>>, None),
     Writer(<<"1", "t">>, <<ColS>>, None),
     Writer(TableT, <<>>, None),
     Node(<<"w">>, "SimpleTableWriter", EmptyMap)}

Reader(table, where, limit) ==
    Node(<<"r">>, "SimpleTableReader",
         [k \in {"table"} \cup (IF where = None THEN {} ELSE {"where"})
                          \cup (IF limit = None THEN {} ELSE {"limit"}) |->
             IF k = "table" THEN JStr(table)
             ELSE IF k = "where" THEN where[1] ELSE limit[1]])

\* `where` parameters: two clauses SQLite runs, four with a character the
\* node refuses (';', a quote, a tab, a line feed), one it accepts and
\* SQLite cannot prepare, and one that is not a string
Wheres ==
    {None,
     Some(JStr(<<"s", ">", "1">>)),
     Some(JStr(<<"s", "=", "5">>)),
     Some(JStr(<<"s", "=", "5", ";">>)),
     Some(JStr(<<"s", "=", "'", "5", "'">>)),
     Some(JStr(<<"s", "\t", ">", "1">>)),
     Some(JStr(<<"s", ">">>)),
     Some(JNum(<<"1">>))}

\* `limit` parameters: absent, a number, zero, and a string
Limits == {None, Some(JNum(<<"1">>))}

ReaderNodes ==
    {Reader(table, where, limit) :
        table \in {TableT, TableBig}, where \in Wheres, limit \in Limits}
    \cup {Reader(TableT, Some(JStr(<<"s", "=", "5", ";">>)), Some(JNum(<<"0">>))),
          Reader(TableT, Some(JStr(<<"s", "=", "5", ";">>)), Some(JStr(<<"1">>))),
          Reader(<<"t", ";">>, None, None),
          Node(<<"r">>, "SimpleTableReader", EmptyMap)}

TableContexts ==
    {PinContext(data, EmptyMap) :
        data \in {<<>>, <<JObj((ColS :> JNum(<<"5">>)) @@ (ColN :> JStr(<<"a">>)))>>}}

\* a database written before the server started: one table of more rows
\* than the default limit
StoredTables ==
    TableBig :> [columns |-> <<ColS>>,
                 rows |-> [i \in 1..(DEFAULT_LIMIT + 1) |->
                              (ColS :> Some(integer_to_string(i % 10)))]]

TableRun(op, node, context, before, result) ==
    [op |-> op, node |-> node, context |-> context, before |-> before, result |-> result]

InitTables ==
    /\ storage = EmptyMap
    /\ workflows = EmptyMap
    /\ job_uuid_map = EmptyMap
    /\ scheduler = EmptyMap
    /\ last = NoRequest
    /\ fired = {}
    /\ executions = <<>>
    /\ webhooks = <<>>
    /\ handlers = <<>>
    /\ project_pools = Unlocked(EmptyMap)
    /\ simpletable_pools = Unlocked(EmptyMap)
    /\ pool_calls = <<>>
    /\ connected = <<>>
    /\ evaluation = None
    /\ simpletables \in {EmptyMap, "default" :> StoredTables}

env == [pools |-> simpletable_pools, opened |-> connected, dbs |-> simpletables]

WriteSimpleTable ==
    \E node \in WriterNodes, context \in TableContexts :
        /\ \A project_slug \in DOMAIN simpletables :
               \A table_name \in DOMAIN simpletables[project_slug] \ {TableBig} :
                   Len(simpletables[project_slug][table_name].rows) < MaxRows
        /\ \E outcome \in execute_simple_table_writer_node(env, node, context) :
               /\ simpletable_pools' = outcome.env.pools
               /\ connected' = outcome.env.opened
               /\ simpletables' = outcome.env.dbs
               /\ evaluation' = Some(TableRun("write", node, context, simpletables,
                                              outcome.result))
        /\ UNCHANGED <<storage, workflows, job_uuid_map, scheduler, last, fired, executions,
                       webhooks, handlers, project_pools, pool_calls>>

ReadSimpleTable ==
    \E node \in ReaderNodes, context \in {PinContext(<<>>, EmptyMap)} :
        LET outcome == execute_simple_table_reader_node(env, node, context)
        IN  /\ simpletable_pools' = outcome.env.pools
            /\ connected' = outcome.env.opened
            /\ simpletables' = outcome.env.dbs
            /\ evaluation' = Some(TableRun("read", node, context, simpletables,
                                           outcome.result))
            /\ UNCHANGED <<storage, workflows, job_uuid_map, scheduler, last, fired,
                           executions, webhooks, handlers, project_pools, pool_calls>>

NextTables == WriteSimpleTable \/ ReadSimpleTable
SpecTables == InitTables /\ [][NextTables]_vars

(***************************************************************************)
(* Properties                                                              *)
(***************************************************************************)
CronNodesOf(workflow) == {n \in Range(workflow.nodes) : n.node_type = "CronTrigger"}
TriggerNodesOf(workflow) ==
    {n \in Range(workflow.nodes) : n.node_type \in {"Webhook", "CronTrigger"}}
NodeIds(workflow) == {n.id : n \in Range(workflow.nodes)}
EdgePairs(workflow) == {<<e.from, e.to>> : e \in Range(workflow.edges)}

\* the node ids reachable from the ids in S along edges (S included)
RECURSIVE Forward(_, _)
Forward(workflow, S) ==
    LET T == S \cup {p[2] : p \in {q \in EdgePairs(workflow) : q[1] \in S}}
    IN  IF T = S THEN S ELSE Forward(workflow, T)

HasCycle(workflow) == \E p \in EdgePairs(workflow) : p[1] \in Forward(workflow, {p[2]})

\* the handles whose key is "<workflow_id>:<some node id>"
HandlesOf(map, workflow_id) ==
    {k \in DOMAIN map : starts_with(k, workflow_id \o <<":">>)}

Stored(id) == from_str(storage[id].definition)

\* the request that returned last got as far as saving its definition
Saved == last.op \in {"create", "update"} /\ last.status \in {HTTP_OK, INTERNAL_SERVER_ERROR}

\* C1: after any sequence of completed create, update and delete requests the
\* handle keys are exactly the (workflow, Cron node) pairs of the registry,
\* and each handle's job carries that node's current schedule.
HotReloadInvariant ==
    /\ DOMAIN job_uuid_map =
           UNION {{job_key(w, n.id) : n \in CronNodesOf(workflows[w].workflow)} :
                      w \in DOMAIN workflows}
    /\ \A w \in DOMAIN workflows : \A n \in CronNodesOf(workflows[w].workflow) :
           LET k == job_key(w, n.id)
           IN  k \in DOMAIN job_uuid_map =>
                   /\ job_uuid_map[k] \in DOMAIN scheduler
                   /\ Some(scheduler[job_uuid_map[k]].schedule) = get_str(n.params, "schedule")

\* C2: after add_or_update(W) has succeeded (the create or update returned
\* success), the handles of W are exactly the Cron nodes of W.
AddOrUpdateExact ==
    (last.op \in {"create", "update"} /\ last.status = HTTP_OK) =>
        HandlesOf(job_uuid_map, last.id) =
            {job_key(last.id, n.id) : n \in CronNodesOf(Stored(last.id))}

\* C3: remove(X) leaves no handle of X and leaves the handles and jobs of
\* every other workflow as they were.
RemoveExact ==
    [][(last'.op = "delete" /\ UNCHANGED <<fired, executions>>) =>
          /\ HandlesOf(job_uuid_map', last'.id) = {}
          /\ \A k \in DOMAIN job_uuid_map \ HandlesOf(job_uuid_map, last'.id) :
                 /\ k \in DOMAIN job_uuid_map'
                 /\ job_uuid_map'[k] = job_uuid_map[k]
                 /\ job_uuid_map[k] \in DOMAIN scheduler'
                 /\ scheduler'[job_uuid_map[k]] = scheduler[job_uuid_map[k]]]_vars

\* C4: a job body that runs while its workflow is absent from the registry
\* starts nothing and changes nothing; one that runs while it is present
\* starts exactly one execution, of the definition now in the registry, with
\* the cron node as entry, trigger_type cron and tenant slug default.
CronSkipOnDelete ==
    [][\A t \in fired :
          fired' = fired \ {t} =>
              /\ UNCHANGED <<storage, workflows, job_uuid_map, scheduler>>
              /\ IF t.workflow_id \notin DOMAIN workflows
                 THEN executions' = executions
                 ELSE /\ Len(executions') = Len(executions) + 1
                      /\ SubSeq(executions', 1, Len(executions)) = executions
                      /\ LET e == executions'[Len(executions')]
                         IN  /\ e.workflow = workflows[t.workflow_id].workflow
                             /\ e.start_node_id = t.cron_node_id
                             /\ e.context.metadata["trigger_type"] = "cron"
                             /\ e.context.project_slug = "default"
                             /\ e.dispatched = <<>>]_vars

CronSkipOnDeleteWitness ==
    /\ last.op = "cron_skip"
    /\ last.id \notin DOMAIN workflows
    /\ \E i \in 1..Len(executions) : executions[i].start_node_id = C2

\* C5: after a reload of id that returned Ok, the registry's entry for id is
\* compiled from the definition the store holds for id.
ReloadPublishesStored ==
    last.reloaded =>
        /\ get_workflow(workflows, last.id) # None
        /\ get_workflow(workflows, last.id)[1].workflow = Stored(last.id)

ReloadPublishesStoredWitness ==
    /\ last.op = "update"
    /\ last.reloaded
    /\ workflows[last.id].workflow = OneCron(last.id)

\* C6: a workflow whose edges contain a cycle never appears in the registry,
\* and the create request for it returns 500 with its reload failing.
CyclesRejected ==
    /\ \A w \in DOMAIN workflows : ~HasCycle(workflows[w].workflow)
    /\ (last.op = "create" /\ Saved /\ HasCycle(Stored(last.id))) =>
           (last.status = INTERNAL_SERVER_ERROR /\ ~last.reloaded)

\* C7: every workflow in the registry has all its edge endpoints among its
\* own nodes.
OrphanEdgesRejected ==
    \A w \in DOMAIN workflows :
        \A p \in EdgePairs(workflows[w].workflow) :
            p[1] \in NodeIds(workflows[w].workflow) /\ p[2] \in NodeIds(workflows[w].workflow)

\* C8: every compiled workflow's start_node_ids are the ids of exactly its
\* Webhook and Cron nodes and are not empty; a workflow with no such node
\* (an empty node list included) fails to compile, so its reload fails.
StartNodesExact ==
    /\ \A w \in DOMAIN workflows :
           LET c == workflows[w]
           IN  /\ c.start_node_ids # <<>>
               /\ Range(c.start_node_ids) = {n.id : n \in TriggerNodesOf(c.workflow)}
               /\ Len(c.start_node_ids) =
                      Cardinality({i \in 1..Len(c.workflow.nodes) :
                                      c.workflow.nodes[i].node_type \in {"Webhook", "CronTrigger"}})
    /\ (Saved /\ TriggerNodesOf(Stored(last.id)) = {}) =>
           (last.status = INTERNAL_SERVER_ERROR /\ ~last.reloaded)

StartNodesExactWitness ==
    /\ Saved
    /\ Stored(last.id).nodes = <<>>
    /\ last.status = INTERNAL_SERVER_ERROR
    /\ \E w \in DOMAIN workflows : Len(workflows[w].start_node_ids) = 2

\* C9: every compiled workflow's webhook_paths are the `path` strings of its
\* Webhook nodes, one per Webhook node that has one, and nothing else.
WebhookPathsExact ==
    \A w \in DOMAIN workflows :
        LET c == workflows[w]
            hooks == {i \in 1..Len(c.workflow.nodes) :
                         /\ c.workflow.nodes[i].node_type = "Webhook"
                         /\ "path" \in DOMAIN c.workflow.nodes[i].params
                         /\ c.workflow.nodes[i].params["path"].t = "str"}
        IN  /\ Len(c.webhook_paths) = Cardinality(hooks)
            /\ Range(c.webhook_paths) = {c.workflow.nodes[i].params["path"].v : i \in hooks}

WebhookPathsExactWitness ==
    \E w \in DOMAIN workflows :
        /\ workflows[w].webhook_paths = <<"/grade">>
        /\ Cardinality({n \in Range(workflows[w].workflow.nodes) :
                           "path" \in DOMAIN n.params}) = 3

\* C10: an execution dispatches only nodes forward-reachable from its entry,
\* each at most once, an edge's source before its target, and never a
\* predecessor of the entry.
DispatchOrder ==
    \A i \in 1..Len(executions) :
        LET e == executions[i]
            ids == [k \in 1..Len(e.dispatched) |-> e.dispatched[k].node]
            reach == Forward(e.workflow, {e.start_node_id})
        IN  /\ \A k \in 1..Len(ids) : ids[k] \in reach
            /\ \A k, l \in 1..Len(ids) : k # l => ids[k] # ids[l]
            /\ \A k, l \in 1..Len(ids) :
                   <<ids[k], ids[l]>> \in EdgePairs(e.workflow) => k < l
            /\ \A k \in 1..Len(ids) :
                   ids[k] # e.start_node_id =>
                       e.start_node_id \notin Forward(e.workflow, {ids[k]})

DispatchOrderWitness ==
    \E i \in 1..Len(executions) :
        LET e == executions[i]
        IN  /\ e.status = "ok"
            /\ e.start_node_id = H
            /\ [k \in 1..Len(e.dispatched) |-> e.dispatched[k].node] = <<F, X>>
            /\ <<M, H>> \in EdgePairs(e.workflow)

NodeTypeOf(workflow, id) ==
    (CHOOSE n \in Range(workflow.nodes) : n.id = id).node_type

\* C11: no execution passes a node of a trigger type (Webhook, Cron,
\* MCPTrigger, WebSocketTrigger, MQTTTrigger) to the node dispatcher.
NoTriggerDispatched ==
    \A i \in 1..Len(executions) :
        \A k \in 1..Len(executions[i].dispatched) :
            NodeTypeOf(executions[i].workflow, executions[i].dispatched[k].node)
                \notin TriggerTypes

\* C12: an execution entered at a Webhook or Cron node from which only
\* Webhook and Cron nodes can be reached fails with the empty-flow error
\* ("Start node has no connected processing nodes") and dispatches nothing.
EmptyFlowFails ==
    \A i \in 1..Len(executions) :
        LET e == executions[i]
            reach == Forward(e.workflow, {e.start_node_id})
        IN  (/\ e.start_node_id \in NodeIds(e.workflow)
             /\ \A p \in EdgePairs(e.workflow) :
                    p[1] \in NodeIds(e.workflow) /\ p[2] \in NodeIds(e.workflow)
             /\ ~HasCycle(e.workflow)
             /\ \A id \in reach :
                    NodeTypeOf(e.workflow, id) \in {"Webhook", "CronTrigger"}) =>
                (/\ e.status = "err"
                 /\ e.error.msg = "Start node has no connected processing nodes"
                 /\ e.dispatched = <<>>)

Last(seq) == seq[Len(seq)]

\* the node record of the entry of nodes_to_execute dispatched last
LastNode(e) ==
    CHOOSE n \in Range(e.nodes_to_execute) : n.id = Last(e.dispatched).node

\* C13: once a node has returned continue = false the execution has ended
\* with success, its result is the result that node returned for the input
\* it was given, and the execution dispatches nothing more.
SoftHalt ==
    [][\A i \in 1..Len(executions') :
          LET e == executions'[i]
          IN  ~e.current_result.should_continue =>
                  /\ e.status = "ok"
                  /\ e.dispatched # <<>>
                  /\ \E r \in execute_node(LastNode(e),
                                           [e.context EXCEPT
                                               !.data = Last(e.dispatched).data,
                                               !.metadata = Last(e.dispatched).metadata]) :
                         r.ok /\ ~r.v.should_continue /\ r.v = e.current_result
                  /\ (i <= Len(executions) /\ ~executions[i].current_result.should_continue)
                         => e = executions[i]]_vars

SoftHaltWitness ==
    \E i \in 1..Len(executions) :
        /\ ~executions[i].current_result.should_continue
        /\ executions[i].status = "ok"
        /\ Len(executions[i].dispatched) = 2
        /\ Len(executions[i].nodes_to_execute) = 3

\* C14: a dispatcher failure ends the execution at once with an error naming
\* the failed node; every earlier dispatch had succeeded, no node is
\* dispatched twice, and a failed execution dispatches nothing more.
DispatchFailureHalts ==
    [][\A i \in 1..Len(executions') :
          LET e == executions'[i]
          IN  /\ e.status \in {"running", "ok"} => Len(e.dispatched) = e.step - 1
              /\ (e.status = "err" /\ e.dispatched # <<>>) =>
                     /\ e.error.msg = "Node execution failed"
                     /\ e.error.node = Last(e.dispatched).node
                     /\ e.error.node = e.nodes_to_execute[e.step].id
                     /\ Len(e.dispatched) = e.step
              /\ \A k, l \in 1..Len(e.dispatched) :
                     k # l => e.dispatched[k].node # e.dispatched[l].node
              /\ (i <= Len(executions) /\ executions[i].status = "err")
                     => e = executions[i]]_vars

DispatchFailureHaltsWitness ==
    \E i \in 1..Len(executions) :
        /\ executions[i].status = "err"
        /\ executions[i].error.node = X
        /\ Len(executions[i].dispatched) = 2
        /\ Len(executions[i].nodes_to_execute) = 3

\* C15: an execution keeps the definition it was started with whatever the
\* registry does afterwards: a step that changes the registry changes no
\* execution, an execution only ever dispatches the nodes of its own list,
\* in order, and an execution started by a trigger runs the definition the
\* registry holds at that moment.
SnapshotIsolation ==
    [][/\ \A i \in 1..Len(executions) :
              /\ i <= Len(executions')
              /\ executions'[i].workflow = executions[i].workflow
              /\ executions'[i].nodes_to_execute = executions[i].nodes_to_execute
              /\ workflows' # workflows => executions'[i] = executions[i]
              /\ Len(executions'[i].dispatched) >= Len(executions[i].dispatched)
              /\ \A k \in 1..Len(executions'[i].dispatched) :
                     /\ executions'[i].dispatched[k].node = executions[i].nodes_to_execute[k].id
                     /\ executions'[i].dispatched[k].node \in NodeIds(executions[i].workflow)
       /\ \A i \in (Len(executions) + 1)..Len(executions') :
              /\ executions'[i].workflow.id \in DOMAIN workflows
              /\ executions'[i].workflow = workflows[executions'[i].workflow.id].workflow]_vars

\* an execution of the old definition still under way, entered by cron or by
\* webhook, after the id was reloaded and a new trigger ran the new definition
SnapshotIsolationWitness ==
    /\ Len(executions) = 2
    /\ executions[1].workflow = Both(WF1)
    /\ executions[1].status = "running"
    /\ Len(executions[1].dispatched) = 1
    /\ executions[2].workflow = Alt(WF1)
    /\ Len(executions[2].dispatched) = 1
    /\ workflows[WF1].workflow = Alt(WF1)

\* what a successful request leaves in the registry for its id
Reflected(h) ==
    IF h.op = "delete" THEN h.id \notin DOMAIN workflows
    ELSE h.id \in DOMAIN workflows /\ workflows[h.id].workflow = h.workflow[1]

\* C16: no registry update is lost: a request that has returned success, on
\* an id no other request is about, is reflected in the registry, however
\* the requests on other ids interleaved with it.
NoLostUpdate ==
    \A i \in 1..Len(handlers) :
        (/\ handlers[i].status = HTTP_OK
         /\ \A j \in 1..Len(handlers) : j # i => handlers[j].id # handlers[i].id
         /\ \A j \in 1..Len(handlers) : handlers[j].pc = "returned")
            => Reflected(handlers[i])

CronState == <<job_uuid_map, scheduler>>

\* C17: a create or update performs its writes in the order store save,
\* registry reload, scheduler add_or_update, a delete in the order scheduler
\* remove, registry remove, store delete; a write is performed only when the
\* ones before it have been, a request that returns success has performed
\* all three, and the store, the registry and the scheduler change only by
\* the write of that name.
MutationOrder ==
    [][/\ \A i \in 1..Len(handlers') :
              LET h == handlers'[i]
                  order == IF h.op = "delete" THEN <<"unschedule", "remove", "delete">>
                           ELSE <<"save", "reload", "schedule">>
              IN  /\ Len(h.done) <= 3
                  /\ h.done = SubSeq(order, 1, Len(h.done))
                  /\ h.status = HTTP_OK => h.done = order
       /\ \A i \in 1..Len(handlers) :
              LET wrote == IF handlers'[i].done = handlers[i].done THEN "nothing"
                           ELSE Last(handlers'[i].done)
              IN  handlers'[i] # handlers[i] =>
                      /\ storage' # storage => wrote \in {"save", "delete"}
                      /\ workflows' # workflows => wrote \in {"reload", "remove"}
                      /\ CronState' # CronState => wrote \in {"schedule", "unschedule"}]_vars

\* a delete that went through its three writes after a create that stopped
\* at the reload, having saved and not scheduled
MutationOrderWitness ==
    /\ Len(handlers) = 2
    /\ handlers[1].op = "create"
    /\ handlers[1].status = INTERNAL_SERVER_ERROR
    /\ handlers[1].done = <<"save">>
    /\ handlers[2].op = "delete"
    /\ handlers[2].status = HTTP_OK

\* C18: a create for an id that is in the store when it is checked returns
\* 409 and writes nothing, and of two create requests for the same id, with
\* no delete of that id, at most one returns success.
CreateConflict ==
    /\ \A i \in 1..Len(handlers) :
           (handlers[i].op = "create" /\ handlers[i].status = CONFLICT)
               => handlers[i].done = <<>>
    /\ \A i, j \in 1..Len(handlers) :
           (/\ i # j
            /\ handlers[i].op = "create" /\ handlers[j].op = "create"
            /\ handlers[i].id = handlers[j].id
            /\ \A k \in 1..Len(handlers) :
                   handlers[k].op = "delete" => handlers[k].id # handlers[i].id)
               => ~(handlers[i].status = HTTP_OK /\ handlers[j].status = HTTP_OK)

MalformedBodies == {"{", ""}

\* the Webhook nodes of workflow whose `path` is the request path, with a
\* leading "/" added when it has none
Listening(workflow, request_path) ==
    LET path == IF request_path[1] = "/" THEN request_path ELSE <<"/">> \o request_path
    IN  {n \in Range(workflow.nodes) :
            /\ n.node_type = "Webhook"
            /\ "path" \in DOMAIN n.params
            /\ n.params["path"] = JStr(path)}

\* C19: a webhook request is answered 400 on a malformed body, else 404 on a
\* workflow id the registry does not hold, else 404 when no Webhook node of
\* the workflow listens on the path, and in these cases starts no execution;
\* otherwise it starts one execution at a listening node and is answered
\* when that execution has ended, 422 on failure and else 200 with the data
\* of the final result.
WebhookOutcome ==
    [][/\ Len(webhooks') = Len(webhooks) + 1 =>
              LET q == Last(webhooks')
                  refused(status) ==
                      q.status = status /\ q.execution = 0 /\ executions' = executions
              IN  IF q.body \in MalformedBodies THEN refused(BAD_REQUEST)
                  ELSE IF q.workflow_id \notin DOMAIN workflows THEN refused(NOT_FOUND)
                  ELSE IF Listening(workflows[q.workflow_id].workflow, q.path) = {}
                  THEN refused(NOT_FOUND)
                  ELSE /\ q.status = 0
                       /\ Len(executions') = Len(executions) + 1
                       /\ q.execution = Len(executions')
                       /\ Last(executions').start_node_id \in
                              {n.id : n \in Listening(workflows[q.workflow_id].workflow, q.path)}
       /\ \A i \in 1..Len(webhooks) :
              webhooks'[i] # webhooks[i] =>
                  LET e == executions[webhooks[i].execution]
                  IN  /\ webhooks[i].status = 0
                      /\ e.status # "running"
                      /\ IF e.status = "err"
                         THEN webhooks'[i].status = UNPROCESSABLE_ENTITY
                         ELSE /\ webhooks'[i].status = HTTP_OK
                              /\ webhooks'[i].data = e.current_result.data]_vars

WebhookOutcomeWitness ==
    \E i \in 1..Len(webhooks) :
        /\ webhooks[i].status = HTTP_OK
        /\ webhooks[i].path = <<"g">>
        /\ Len(executions[webhooks[i].execution].dispatched) = 2
        /\ webhooks[i].data = executions[webhooks[i].execution].current_result.data

\* C20: a webhook request executes the workflow named in its URL, entered at
\* a Webhook node of that workflow, and dispatches nodes of that workflow
\* only, also when another workflow declares the same path.
WebhookScoped ==
    \A i \in 1..Len(webhooks) :
        webhooks[i].execution # 0 =>
            LET e == executions[webhooks[i].execution]
            IN  /\ e.workflow.id = webhooks[i].workflow_id
                /\ e.start_node_id \in {n.id : n \in Listening(e.workflow, webhooks[i].path)}
                /\ \A k \in 1..Len(e.dispatched) : e.dispatched[k].node \in NodeIds(e.workflow)
                /\ e.workflow \in {Flow(e.workflow.id), Alt(e.workflow.id)}

\* both workflows registered on the same path with different definitions,
\* and a request to the second one served
WebhookScopedWitness ==
    /\ DOMAIN workflows = {WF1, WF10}
    /\ workflows[WF1].workflow = Flow(WF1)
    /\ workflows[WF10].workflow = Alt(WF10)
    /\ \E i \in 1..Len(webhooks) :
           /\ webhooks[i].workflow_id = WF10
           /\ webhooks[i].execution # 0
           /\ executions[webhooks[i].execution].dispatched # <<>>

\* C21: a successful reload of an id that follows a successful reload of the
\* same id, with no store or registry write in between, leaves the registry
\* as the first one left it.
ReloadIdempotent ==
    [][(last'.op = "reload" /\ last'.calls = 2) => workflows' = workflows]_vars

\* a second reload in a row has returned, of a workflow with webhook paths,
\* with another workflow registered beside it
ReloadIdempotentWitness ==
    /\ last.op = "reload"
    /\ last.calls = 2
    /\ DOMAIN workflows = WorkflowIds
    /\ workflows[last.id].webhook_paths # <<>>

RegistryFrame ==
    [][last'.op \in {"reload", "remove"} =>
          /\ \A other \in WorkflowIds \ {last'.id} :
                 /\ other \in DOMAIN workflows' <=> other \in DOMAIN workflows
                 /\ other \in DOMAIN workflows => workflows'[other] = workflows[other]
          /\ (last'.op = "remove" /\ last'.id \notin DOMAIN workflows) =>
                 last'.ok /\ workflows' = workflows]_vars

\* w1 was removed from a registry that held w1 and w10
RegistryFrameWitness ==
    /\ last.op = "remove"
    /\ last.id = WF1
    /\ DOMAIN workflows = {WF10}
    /\ \E id \in DOMAIN storage : id = WF1

\* the handle keys and the jobs held, whatever their uuids
Handles(s) == DOMAIN s.job_uuid_map
LiveJobs(s) == {s.scheduler[u] : u \in DOMAIN s.scheduler}

\* C23: a removal of the triggers of W.id that follows a successful
\* add_or_update of W leaves the handle keys and the jobs the scheduler had
\* before the add_or_update.
ReconcileRestores ==
    [][(/\ last.op = "add_or_update"
        /\ last.ok
        /\ last'.op = "remove"
        /\ last'.id = last.id) =>
           /\ Handles(scheduler_state') = Handles(last.before)
           /\ LiveJobs(scheduler_state') = LiveJobs(last.before)]_vars

\* the same, for a scheduler that held no trigger of W.id before
ReconcileRestoresOthers ==
    [][(/\ last.op = "add_or_update"
        /\ last.ok
        /\ last'.op = "remove"
        /\ last'.id = last.id
        /\ \A key \in Handles(last.before) :
               last.before.scheduler[last.before.job_uuid_map[key]].workflow_id # last.id) =>
           /\ Handles(scheduler_state') = Handles(last.before)
           /\ LiveJobs(scheduler_state') = LiveJobs(last.before)]_vars

\* the map of the given kind
PoolsOf(kind) == IF kind = "project" THEN project_pools.map ELSE simpletable_pools.map

Cached(map, map_after) ==
    \A slug \in DOMAIN map : slug \in DOMAIN map_after /\ map_after[slug] = map[slug]

NodeOf(e, id) == CHOOSE n \in Range(e.workflow.nodes) : n.id = id

\* a `secrets` list that is present, not empty, and made of "$secret." pins
SecretsGiven(n) ==
    /\ n.secrets # None
    /\ n.secrets[1] # <<>>
    /\ \A i \in 1..Len(n.secrets[1]) :
           /\ Len(n.secrets[1][i]) >= 8
           /\ SubSeq(n.secrets[1][i], 1, 8) = <<"$", "s", "e", "c", "r", "e", "t", ".">>

\* the executions that dispatched a PostgreSQL node without such a list, with
\* the position of that dispatch
SecretMissing ==
    {<<i, k>> \in (1..Len(executions)) \X (1..5) :
        /\ k <= Len(executions[i].dispatched)
        /\ LET n == NodeOf(executions[i], executions[i].dispatched[k].node)
           IN  /\ n.node_type \in {"PGQuery", "PGDynTableWriter"}
               /\ ~SecretsGiven(n)}

\* C25: an execution that dispatches a PGQuery or PGDynTableWriter node whose
\* secrets are absent, empty or not "$secret." pins fails at that node: the
\* node yields no result, nothing is dispatched after it, and the webhook
\* request that started the execution is answered 422.
MissingSecretFails ==
    \A ik \in SecretMissing :
        LET e == executions[ik[1]]
        IN  /\ e.status = "err"
            /\ e.error.node = e.dispatched[ik[2]].node
            /\ ik[2] = Len(e.dispatched)
            /\ e.current_result.data = e.dispatched[ik[2]].data
            /\ \A q \in 1..Len(webhooks) :
                   (webhooks[q].execution = ik[1] /\ webhooks[q].status # 0) =>
                       webhooks[q].status = UNPROCESSABLE_ENTITY

\* a request answered 422 after its execution ran f and then failed at a
\* PGQuery node whose one secret pin is a plain connection URL
MissingSecretFailsWitness ==
    \E q \in 1..Len(webhooks) :
        /\ webhooks[q].status = UNPROCESSABLE_ENTITY
        /\ <<webhooks[q].execution, 2>> \in SecretMissing
        /\ LET n == NodeOf(executions[webhooks[q].execution], P)
           IN  n.node_type = "PGQuery" /\ n.secrets = Some(<<PlainUrl>>)

NoTornTick ==
    /\ [](\A key \in DOMAIN job_uuid_map :
              /\ job_uuid_map[key] \in DOMAIN scheduler
              /\ scheduler[job_uuid_map[key]].workflow_id \in DOMAIN workflows
              /\ key = job_key(scheduler[job_uuid_map[key]].workflow_id,
                               scheduler[job_uuid_map[key]].cron_node_id))
    /\ [][/\ \A t \in fired' \ fired : t.workflow_id \in DOMAIN workflows
          /\ \A t \in fired \ fired' :
                 last'.op = "cron_skip" =>
                     job_key(t.workflow_id, t.cron_node_id) \notin DOMAIN job_uuid_map]_vars

\* a job that fired while a delete stood between its scheduler removal and
\* its registry removal: the job's body is spawned, the job is unscheduled,
\* the workflow is still registered
NoTornTickWitness ==
    \E i \in 1..Len(handlers) :
        /\ handlers[i].op = "delete"
        /\ handlers[i].pc = "remove_store"
        /\ handlers[i].id \in DOMAIN workflows
        /\ \E t \in fired : t.workflow_id = handlers[i].id
        /\ job_uuid_map = EmptyMap

\* the segments of a path written back with dots between them
RECURSIVE Join(_)
Join(segments) ==
    IF Len(segments) = 1 THEN Head(segments)
    ELSE Head(segments) \o <<".">> \o Join(Tail(segments))

\* the value found by following the segments down from a value, None when a
\* segment is missing or the value to look in is not a mapping
RECURSIVE ValueAt(_, _)
ValueAt(value, segments) ==
    IF segments = <<>> THEN Some(value)
    ELSE IF value.t # "obj" THEN None
    ELSE IF Head(segments) \notin DOMAIN value.v THEN None
    ELSE ValueAt(value.v[Head(segments)], Tail(segments))

OrNull(option) == IF option = None THEN JNull ELSE option[1]

Evaluated == evaluation # None /\ evaluation[1].result # None
ReadsJson(pin_expr) == pin_expr = JsonPin \/ starts_with(pin_expr, JsonPrefix)

\* C29: a pin `$json` or `$json.<path>` evaluates without failing to one
\* value that the context determines: `$json` gives the first element of
\* data, or null when data is empty; `$json.<path>` gives the value found by
\* following the segments of the path, cut at the dots, down from the first
\* element, and null when data is empty, a segment is missing or a value on
\* the way is not a mapping.
JsonPinPure ==
    (Evaluated /\ ReadsJson(evaluation[1].pin_expr)) =>
        LET e == evaluation[1]
            data == e.context.data
            first == IF data = <<>> THEN None ELSE Some(data[1])
            path == after_prefix(e.pin_expr, JsonPrefix)
            segments == split(path, ".")
        IN  /\ e.via = "json"
            /\ e.result[1].ok
            /\ Cardinality(evaluate_input_pin(e.pin_expr, e.context)) = 1
            /\ e.pin_expr = JsonPin => e.result[1].v = OrNull(first)
            /\ e.pin_expr # JsonPin =>
                  /\ Join(segments) = path
                  /\ \A i \in 1..Len(segments) : ~contains(segments[i], <<".">>)
                  /\ e.result[1].v = IF first = None THEN JNull
                                     ELSE OrNull(ValueAt(first[1], segments))

JsonPinPureWitness ==
    /\ Evaluated
    /\ evaluation[1].pin_expr = JsonPrefix \o <<"a", ".", "b", ".", "c">>
    /\ evaluation[1].context.data = <<Nested>>
    /\ evaluation[1].result = Some(Ok(JNum(<<"1">>)))

Blacklisted(expr) == \E pattern \in dangerous_patterns : contains(expr, pattern)
Whitelisted(expr) == \E pattern \in safe_patterns : contains(expr, pattern)
PermittedOnly(expr) ==
    \A i \in 1..Len(expr) : is_alphanumeric(expr[i]) \/ expr[i] \in SimpleExpressionChars

\* a pin that none of the source prefixes claims before the gate is asked
ReachesGate(pin_expr) ==
    /\ ~ReadsJson(pin_expr)
    /\ \A prefix \in {FilePrefix, QueryPrefix, HeadersPrefix, WebsocketPrefix,
                      MqttPrefix, McpPrefix} : ~starts_with(pin_expr, prefix)

\* C30: a pin expression that holds a blacklisted substring is not run as a
\* script, whitelisted substring or not; one without a blacklisted substring
\* is run as a script exactly when it holds a whitelisted substring or has
\* fewer than 200 characters, all of them permitted; every other expression
\* is evaluated as a literal.
ScriptGate ==
    (Evaluated /\ ReachesGate(evaluation[1].pin_expr)) =>
        LET e == evaluation[1]
        IN  /\ e.via \in {"script", "literal"}
            /\ Blacklisted(e.pin_expr) => e.via = "literal"
            /\ ~Blacklisted(e.pin_expr) =>
                  (e.via = "script" <=>
                      \/ Whitelisted(e.pin_expr)
                      \/ Len(e.pin_expr) < MaxExprLen /\ PermittedOnly(e.pin_expr))

\* the same statement with the length taken in bytes
ScriptGateInBytes ==
    (Evaluated /\ ReachesGate(evaluation[1].pin_expr)) =>
        LET e == evaluation[1]
        IN  /\ e.via \in {"script", "literal"}
            /\ Blacklisted(e.pin_expr) => e.via = "literal"
            /\ ~Blacklisted(e.pin_expr) =>
                  (e.via = "script" <=>
                      \/ Whitelisted(e.pin_expr)
                      \/ len(e.pin_expr) < MaxExprLen /\ PermittedOnly(e.pin_expr))

\* pins with two-byte letters aside, the gate is the one stated
ScriptGateAscii ==
    (Evaluated /\ \A i \in 1..Len(evaluation[1].pin_expr) :
                     evaluation[1].pin_expr[i] \notin TwoByteLetters) => ScriptGate

\* C38: a reload of an id the store does not hold, or whose stored
\* definition does not compile, returns an error, and a reload that returns
\* an error leaves the registry as it was, the entry compiled for the id
\* before included.
FailedReloadKeeps ==
    [][last'.op = "reload" =>
          /\ (\/ last'.id \notin DOMAIN storage
              \/ ~compile_single_workflow(Stored(last'.id)).ok) => ~last'.ok
          /\ ~last'.ok => workflows' = workflows]_vars

\* a reload of w1 failed on a stored definition without a start node while
\* the registry held the entry compiled from an earlier definition of w1
FailedReloadKeepsWitness ==
    /\ last.op = "reload"
    /\ last.id = WF1
    /\ ~last.ok
    /\ WF1 \in DOMAIN storage
    /\ Stored(WF1) = NoStart(WF1)
    /\ WF1 \in DOMAIN workflows
    /\ workflows[WF1].workflow = Hooks(WF1)

\* C36: a create or update request that returns an error because the
\* reload of the submitted workflow failed leaves the store, the registry,
\* the handle map and the jobs as they were before the request.
FailedCompileKeeps ==
    [][(/\ last'.op \in {"create", "update"}
        /\ last'.status = INTERNAL_SERVER_ERROR
        /\ ~last'.reloaded) =>
          /\ storage' = storage
          /\ workflows' = workflows
          /\ job_uuid_map' = job_uuid_map
          /\ scheduler' = scheduler]_vars

\* the same without the store: the registry and the scheduler are kept
FailedCompileKeepsRuntime ==
    [][(/\ last'.op \in {"create", "update"}
        /\ last'.status = INTERNAL_SERVER_ERROR
        /\ ~last'.reloaded) =>
          /\ workflows' = workflows
          /\ job_uuid_map' = job_uuid_map
          /\ scheduler' = scheduler]_vars

\* C37: every definition in the store compiles: init_from_storage on the
\* store succeeds and gives a registry that holds exactly the stored
\* workflows.
RestartSafe ==
    LET started == init_from_storage(storage)
    IN  /\ started.ok
        /\ DOMAIN started.v = DOMAIN storage
        /\ \A id \in DOMAIN storage : started.v[id].workflow = Stored(id)

\* C39: a DELETE request that returns 404 leaves the store, the registry,
\* the handle map and the jobs of every workflow as they were.
DeleteNotFoundKeeps ==
    [][(last'.op = "delete" /\ last'.status = NOT_FOUND) =>
          /\ storage' = storage
          /\ workflows' = workflows
          /\ job_uuid_map' = job_uuid_map
          /\ scheduler' = scheduler]_vars

\* the same for the store, the registry and the handles whose key does not
\* start with the id of the request
DeleteNotFoundKeepsOthers ==
    [][(last'.op = "delete" /\ last'.status = NOT_FOUND) =>
          /\ storage' = storage
          /\ workflows' = workflows
          /\ \A key \in DOMAIN job_uuid_map :
                 ~starts_with(key, last'.id) =>
                     /\ key \in DOMAIN job_uuid_map'
                     /\ job_uuid_map'[key] = job_uuid_map[key]
                     /\ job_uuid_map[key] \in DOMAIN scheduler'
          /\ DOMAIN job_uuid_map' \subseteq DOMAIN job_uuid_map]_vars

\* C40: when add_or_update of W has returned an error, the handle keys and
\* the jobs of the scheduler are those it held when the call was entered.
FailedAddKeeps ==
    (last.op = "add_or_update" /\ ~last.ok) =>
        /\ Handles(scheduler_state) = Handles(last.before)
        /\ LiveJobs(scheduler_state) = LiveJobs(last.before)

\* the same for a W whose first Cron node has no schedule parameter
FailedAddKeepsNoSchedule ==
    (last.op = "add_or_update" /\ ~last.ok /\ last.payload = NoSchedule(last.id)) =>
        scheduler_state = last.before

Returned == \A i \in 1..Len(handlers) : handlers[i].pc = "returned"

\* C34: once the scheduler calls in flight have returned, every job the
\* scheduler holds is the job of a handle recorded under the key of its
\* workflow and Cron node, and no two jobs belong to the same workflow and
\* Cron node.
OneJobPerNode ==
    Returned =>
        /\ \A u \in DOMAIN scheduler :
               LET key == job_key(scheduler[u].workflow_id, scheduler[u].cron_node_id)
               IN  key \in DOMAIN job_uuid_map /\ job_uuid_map[key] = u
        /\ \A u, v \in DOMAIN scheduler :
               (/\ scheduler[u].workflow_id = scheduler[v].workflow_id
                /\ scheduler[u].cron_node_id = scheduler[v].cron_node_id) => u = v

Started == handlers # <<>> /\ handlers[1].pc = "started"

\* C35: once start() has completed, with the management requests served
\* meanwhile completed too, the handle keys are the Cron nodes of the
\* workflows in the registry, and the job of each handle has the schedule
\* its node has in the registry.
StartRegistersCurrent ==
    Started =>
        /\ DOMAIN job_uuid_map =
               {job_key(id, n.id) : <<id, n>> \in
                   UNION {{id} \X CronNodesOf(workflows[id].workflow) : id \in DOMAIN workflows}}
        /\ \A id \in DOMAIN workflows :
               \A n \in CronNodesOf(workflows[id].workflow) :
                   LET key == job_key(id, n.id)
                   IN  key \in DOMAIN job_uuid_map =>
                           /\ job_uuid_map[key] \in DOMAIN scheduler
                           /\ Some(scheduler[job_uuid_map[key]].schedule) =
                                  get_str(n.params, "schedule")

\* a Lua table whose keys are exactly 1..n for some n >= 1
IsLuaSequence(lua_value) ==
    /\ lua_value.t = "table"
    /\ DOMAIN lua_value.pairs # {}
    /\ DOMAIN lua_value.pairs =
           {LuaInteger(i) : i \in 1..Cardinality(DOMAIN lua_value.pairs)}

FunLogicReturned ==
    /\ evaluation # None
    /\ "lua_result" \in DOMAIN evaluation[1]
    /\ evaluation[1].result # None
    /\ evaluation[1].result[1].ok

\* C31: the data a FunLogic node returns is a sequence: the elements of the
\* script's value when that value is a table with the keys 1..n, and
\* otherwise exactly one element, the value itself (null for nil, the empty
\* object for the empty table)
FunLogicSequence ==
    FunLogicReturned =>
        LET lua_value == evaluation[1].lua_result.v
            data == evaluation[1].result[1].v.data
        IN  /\ DOMAIN data = 1..Len(data)
            /\ IF IsLuaSequence(lua_value)
               THEN /\ Len(data) = Cardinality(DOMAIN lua_value.pairs)
                    /\ \A i \in 1..Len(data) :
                           Ok(data[i]) = lua_to_json(lua_value.pairs[LuaInteger(i)])
               ELSE /\ Len(data) = 1
                    /\ Ok(data[1]) = lua_to_json(lua_value)
                    /\ data[1].t # "arr"
            /\ lua_value = LuaNil => data = <<JNull>>
            /\ lua_value = LuaTable(EmptyMap) => data = <<JObj(EmptyMap)>>

FunLogicSequenceWitness ==
    /\ FunLogicReturned
    /\ evaluation[1].lua_result.v = LuaTable(EmptyMap)
    /\ evaluation[1].result[1].v.data = <<JObj(EmptyMap)>>

Ran(op) ==
    /\ evaluation # None
    /\ "op" \in DOMAIN evaluation[1]
    /\ evaluation[1].op = op

\* the table and the columns a writer node names, when it names both
NamesTable(node) ==
    /\ get_str(node.params, "table") # None
    /\ "columns" \in DOMAIN node.params
    /\ node.params["columns"].t = "arr"
    /\ node.params["columns"].v # <<>>

PinCountDiffers(node) ==
    /\ NamesTable(node)
    /\ node.inputs # None
    /\ Len(node.inputs[1]) # Len(node.params["columns"].v)

InvalidIdentifier(node) ==
    /\ NamesTable(node)
    /\ \E name \in {node.params["table"].v}
                      \cup {node.params["columns"].v[i].v :
                               i \in 1..Len(node.params["columns"].v)} :
           \E i \in 1..Len(name) : name[i] \notin AsciiLetters \cup AsciiDigits \cup {"_"}

\* C33: a writer node whose pin count differs from its column count, or that
\* names an invalid table or column, fails and leaves the databases as they
\* were: no table created, no row inserted
WriterFailureKeeps ==
    (Ran("write") /\ (PinCountDiffers(evaluation[1].node)
                        \/ InvalidIdentifier(evaluation[1].node)))
        => /\ ~evaluation[1].result.ok
           /\ simpletables = evaluation[1].before

\* the part of C33 that holds: an invalid identifier fails the node before
\* anything is opened or created
InvalidIdentifierKeeps ==
    (Ran("write") /\ InvalidIdentifier(evaluation[1].node))
        => /\ ~evaluation[1].result.ok
           /\ simpletables = evaluation[1].before

\* and every writer node of C33 fails
WriterFailureFails ==
    (Ran("write") /\ (PinCountDiffers(evaluation[1].node)
                        \/ InvalidIdentifier(evaluation[1].node)))
        => ~evaluation[1].result.ok

\* the `where` parameters C32 is about: a string with a character that is
\* neither alphanumeric, nor whitespace, nor one of ><=!()._
RefusedWhere(node) ==
    /\ get_str(node.params, "where") # None
    /\ \E i \in 1..Len(node.params["where"].v) :
           node.params["where"].v[i] \notin
               AsciiLetters \cup AsciiDigits \cup TwoByteLetters
               \cup {" ", "\t", "\n", ">", "<", "=", "!", "(", ")", ".", "_"}

\* the rows of a table, newest first, at most `most` of them
NewestFirst(table, most) ==
    LET n == Len(table.rows)
        k == IF n <= most THEN n ELSE most
    IN  [i \in 1..k |-> row_json(table, n + 1 - i)]

LimitOf(node) ==
    IF "limit" \in DOMAIN node.params /\ node.params["limit"].t = "num"
    THEN parse_digits(node.params["limit"].v)
    ELSE 100

ReadExisting ==
    /\ Ran("read")
    /\ get_str(evaluation[1].node.params, "table") # None
    /\ evaluation[1].context.project_slug \in DOMAIN evaluation[1].before
    /\ evaluation[1].node.params["table"].v
           \in DOMAIN evaluation[1].before[evaluation[1].context.project_slug]

\* C32: a reader node whose `where` has a character outside the alphanumerics,
\* whitespace and ><=!()._ does not fail on it: reading a table that exists
\* returns one item {results, count, table} whose results are all the rows
\* of the table, newest first, cut at `limit` or at 100
RefusedWhereReadsAll ==
    (ReadExisting /\ RefusedWhere(evaluation[1].node))
        => LET node == evaluation[1].node
               table == evaluation[1].before[evaluation[1].context.project_slug]
                                            [node.params["table"].v]
               results == NewestFirst(table, LimitOf(node))
           IN  /\ evaluation[1].result.ok
               /\ evaluation[1].result.v.data =
                      <<JObj((ResultsKey :> JArr(results))
                             @@ (CountKey :> JNum(integer_to_string(Len(results))))
                             @@ (TableKey :> JStr(node.params["table"].v)))>>
               /\ simpletables = evaluation[1].before

RefusedWhereReadsAllWitness ==
    /\ ReadExisting
    /\ RefusedWhere(evaluation[1].node)
    /\ evaluation[1].node.params["table"].v = TableT
    /\ "limit" \notin DOMAIN evaluation[1].node.params
    /\ evaluation[1].result.ok
    /\ Len(evaluation[1].result.v.data[1].v[ResultsKey].v) = 2
    /\ evaluation[1].result.v.data[1].v[ResultsKey].v[1]
           # evaluation[1].result.v.data[1].v[ResultsKey].v[2]

\* the default limit at work: of the 101 rows stored, 100 are returned
RefusedWhereReadsHundred ==
    /\ ReadExisting
    /\ RefusedWhere(evaluation[1].node)
    /\ evaluation[1].node.params["table"].v = TableBig
    /\ evaluation[1].result.ok
    /\ Len(evaluation[1].result.v.data[1].v[ResultsKey].v) = 100

\* a `where` the node accepts filters: fewer rows come back than the table has
AcceptedWhereFilters ==
    /\ ReadExisting
    /\ evaluation[1].node.params["table"].v = TableT
    /\ "limit" \notin DOMAIN evaluation[1].node.params
    /\ evaluation[1].result.ok
    /\ Len(evaluation[1].result.v.data[1].v[ResultsKey].v)
           < Len(evaluation[1].before["default"][TableT].rows)

\* a tab or a line feed in `where` is refused like the semicolon
TabWhereReadsAll ==
    (ReadExisting /\ get_str(evaluation[1].node.params, "where") # None
                  /\ "\t" \in Range(evaluation[1].node.params["where"].v))
        => /\ evaluation[1].result.ok
           /\ evaluation[1].result.v.data[1].v[CountKey]
                  = JNum(integer_to_string(
                       Len(NewestFirst(evaluation[1].before["default"]
                                           [evaluation[1].node.params["table"].v],
                                       LimitOf(evaluation[1].node)))))

====
